---- MODULE Spec2Model ----
(***************************************************************************)
(* LoudGain: the work-stealing pool (mvThreadPool.h), the album/track      *)
(* controller LoudGain::processLibrary (loudgain.cpp) and the folder       *)
(* aggregation of AudioFolder (scan.cpp), as one state machine.            *)
(*                                                                         *)
(* Threads are the controller (the thread that runs main) and the pool's   *)
(* workers 0 .. NumWorkers-1.  Every access to an atomic or to a           *)
(* mutex-protected deque is one step; thread-local computation is folded   *)
(* into the step that follows it.                                          *)
(***************************************************************************)
EXTENDS Integers, Sequences, FiniteSets, TLC

\* ------------------------------------------------------------------------
\* Bounds of the model
\* ------------------------------------------------------------------------
NumWorkers == 2        \* nthreads handed to the mvThreadPool constructor
MaxFolders == 3        \* folders in the library
MaxFolderSize == 3     \* tracks in one folder
MaxTracks == 4         \* tracks in the library
MaxFileTasks == 3      \* tracks in the library in track mode: one task per file
MaxTasks == 2          \* tasks the generic pool client submits
MaxBarriers == 2       \* wait_for_idle calls of the generic pool client

\* The thresholds of processLibrary, scaled down so that every path is
\* reached with a handful of tracks: the source compares with 5 * nthreads
\* (loudgain.cpp:430), 1000 (loudgain.cpp:438) and 2000 (loudgain.cpp:463).
FolderFactor == 1
SmallFolderMax == 1
TrackCeiling == 3

Workers == 0 .. (NumWorkers - 1)

\* ------------------------------------------------------------------------
\* Tasks (mvFunctionWrapper): kind, and two arguments
\*   scan   a = folder, b = member      AudioFolder::scanFile bound to a folder
\*   folder a = folder                  LoudGain::processAudioFolder(paths)
\*   file   a = folder, b = member      LoudGain::processAudioFile(path)
\*   gen    a = id, b = behaviour       a task of the generic client:
\*                                      0 returns, 1 throws, 2 submits a child
\* ------------------------------------------------------------------------
NoTask == [kind |-> "none", a |-> 0, b |-> 0]
Task(k, x, y) == [kind |-> k, a |-> x, b |-> y]

GenIds == 1 .. (2 * MaxTasks)
ChildOf(id) == id + MaxTasks

VARIABLES
    \* mvThreadPool
    m_wait_for_idle,    \* std::atomic_bool
    m_done,             \* std::atomic_bool
    m_pool_work_queue,  \* the shared deque
    m_queues,           \* one deque per worker
    m_idling,           \* one atomic flag per worker
    \* worker threads
    wpc,                \* position of each worker
    wi,                 \* loop counter of each worker
    wtask,              \* the task a worker holds
    wm,                 \* member index of a worker inside a folder task
    \* controller thread
    cpc,                \* position of the controller
    cstack,             \* return positions of the calls in progress
    ci,                 \* loop counter of wait_for_idle / wait_for_finished
    finished,           \* local of wait_for_idle
    \* generic client of the pool
    fut,                \* shared state of the future of each generic task
    got,                \* what future.get() delivered to the waiter
    nsub,               \* tasks submitted by the client
    nbar,               \* wait_for_idle calls made by the client
    chained,            \* a worker has submitted a task
    \* LoudGain
    mode,               \* "album", "track" or "pool" (generic client)
    lib,                \* the library: sizes of the folders, in map order
    it,                 \* iterator of processLibrary over the folders
    si,                 \* index of the submit loop
    tr_count,           \* running track count of the wave
    audio_folders,      \* the wave: folders pushed since the last clear
    held,               \* AudioFolder objects the controller references
    af,                 \* index in the controller's processAudioFolder loops
    cf,                 \* folder the controller's processAudioFolder works on
    ai,                 \* member index in processAudioFolder
    scanStatus,         \* AudioFile::scanStatus of each track
    trackDone,          \* track fields written (scan.cpp:483-487)
    albumWrites,        \* times the album fields of a track were written
    aggCount,           \* processAudioFolder(AudioFolder&) calls per folder
    aggResult,          \* "none", "ok", "failed"
    trackOut,           \* track records emitted per track
    albumOut,           \* album records emitted per folder
    errOut,             \* folders reported as failed
    proc,               \* "running", "returned", "exit"
    exitStatus,         \* status of the process when it ended
    exitBy,             \* thread that called exit(): "none", "controller", "worker"
    \* the files and what the libraries report for them
    content,            \* per track: codec, container, loudness, range, true peak
    albumContent,       \* per folder: loudness and range of the members together
    audioFile,          \* the value fields of the AudioFile of each track
    \* options of LoudGain
    pregain,
    maxTruePeakLevel,
    preventClipping,
    scanAlbum,
    \* a single thread that scans and processes one folder
    gpc,                \* position of that thread
    gi,                 \* member it works on
    tgain,              \* local of processAudioFile: "gained" track peak
    again,              \* local of processAudioFile: "gained" album peak
    logOfZero,          \* the correction step took log10 of a zero peak
    npass,              \* calls of processAudioFile per track
    \* tags and the CSV file
    tagMode,            \* 'd', 'i', 'e' or 's'
    tagWrites,          \* calls of RGTagManager::writeRGTags per track
    clears,             \* calls of RGTagManager::clearRGTags per track
    csvOpen,            \* csvfile.is_open()
    csvWriter,          \* threads inside csvfile << line.str()
    \* the number of threads
    mthrds,             \* std::thread::hardware_concurrency()
    nArg,               \* argument n of setNumberOfThreads
    numberOfThreads,    \* LoudGain::numberOfThreads
    pl_nthreads,        \* local nthreads of processLibrary
    tpc                 \* position of the thread that sets the option

poolVars == <<m_wait_for_idle, m_done, m_pool_work_queue, m_queues, m_idling>>
workerVars == <<wpc, wi, wtask, wm>>
ctlVars == <<cpc, cstack, ci, finished>>
clientVars == <<fut, got, nsub, nbar, chained>>
libVars == <<mode, lib>>
loopVars == <<it, si, tr_count, audio_folders, held, af, cf, ai>>
trackVars == <<scanStatus, trackDone, albumWrites, audioFile>>
aggVars == <<aggCount, aggResult>>
outVars == <<trackOut, albumOut, errOut>>
procVars == <<proc, exitStatus, exitBy>>
lgVars == <<loopVars, trackVars, aggVars, outVars, procVars>>

inputVars == <<content, albumContent>>
optVars == <<pregain, maxTruePeakLevel, preventClipping, scanAlbum>>
stepVars == <<gpc, gi, tgain, again, logOfZero, npass>>
tagVars == <<tagMode, tagWrites, clears>>
csvVars == <<csvOpen, csvWriter>>
thrVars == <<mthrds, nArg, numberOfThreads, pl_nthreads, tpc>>
runVars == <<tagVars, csvVars, thrVars>>
numVars == <<inputVars, optVars, stepVars, runVars>>
\* what processAudioFile leaves alone when it runs in the pool
pafRest == <<inputVars, optVars, stepVars, tagMode, clears, csvOpen, thrVars>>
vars == <<poolVars, workerVars, ctlVars, clientVars, libVars, lgVars, numVars>>

\* ------------------------------------------------------------------------
\* The library
\* ------------------------------------------------------------------------
RECURSIVE SumSeq(_)
SumSeq(s) == IF s = <<>> THEN 0 ELSE Head(s) + SumSeq(Tail(s))

\* getSupportedAudioFilesSortedByFolder: every folder of the map has at
\* least one file
Libraries ==
    { l \in UNION { [1 .. n -> 1 .. MaxFolderSize] : n \in 1 .. MaxFolders } :
        SumSeq(l) <= MaxTracks }

Folders == 1 .. MaxFolders
Tracks == { <<f, i>> : f \in Folders, i \in 1 .. MaxFolderSize }
NumFolders == Len(lib)
Members(f) == { <<f, i>> : i \in 1 .. lib[f] }
LibTracks == UNION { Members(f) : f \in 1 .. NumFolders }

\* ------------------------------------------------------------------------
\* Numbers.  A double that holds a level in dB (a gain, a loudness, the
\* true-peak limit) is an integer number of tenths of a dB.  A double that
\* holds a linear amplitude (a peak) is 0.0 or 10^(level/20) and is kept
\* as that level.  The double evaluation of log10 and pow in the gain
\* correction is rounded: its result is off by at most MaxErr tenths.
\* ------------------------------------------------------------------------
MaxErr == 1
GainFolderSize == 2    \* members of the folder of the single-threaded run
MaxPasses == 2         \* applications of the clipping step to one track
Err == (0 - MaxErr) .. MaxErr

\* An unsigned (32 bits) is kept as its two halves of 16 bits
Half == 65536
U32(k) == [hi |-> k \div Half, lo |-> k % Half]
U32_dec(u) ==
    IF u.lo > 0 THEN [hi |-> u.hi, lo |-> u.lo - 1]
    ELSE [hi |-> (u.hi + Half - 1) % Half, lo |-> Half - 1]
U32_less(u, v) == u.hi < v.hi \/ (u.hi = v.hi /\ u.lo < v.lo)
U32_min(u, v) == IF U32_less(v, u) THEN v ELSE u
U32_max(u, v) == IF U32_less(u, v) THEN v ELSE u

dB(x) == 10 * x
ZeroAmp == [zero |-> TRUE, level |-> 0]
Amp(l) == [zero |-> FALSE, level |-> l]

\* pow(10.0, x / 20.0)
pow10(x) == Amp(x)

\* a * b for two amplitudes
Times(a, b) == IF a.zero \/ b.zero THEN ZeroAmp ELSE Amp(a.level + b.level)

\* a > b for two amplitudes
Greater(a, b) == ~a.zero /\ (b.zero \/ a.level > b.level)

\* std::max<double>(a, b)
MaxAmp(a, b) == IF Greater(b, a) THEN b ELSE a

\* log10(a / b) * 20.0 for two amplitudes that are not zero
log10x20(a, b) == a.level - b.level

\* What libavformat, libavcodec and libebur128 report for a file
\* (codec and container: Opus in Ogg or MP4, FLAC in Ogg, MP3 in MP4)
Kinds ==
    { [codec |-> "OPUS", format |-> "ogg"], [codec |-> "OPUS", format |-> "mp4"],
      [codec |-> "FLAC", format |-> "ogg"], [codec |-> "MP3", format |-> "mp4"] }
Loudnesses == {dB(0 - 21), dB(0 - 20)}
Ranges == {dB(6)}
Peaks == {ZeroAmp, Amp(dB(0)), Amp(dB(0 - 4))}
Contents ==
    { [codec |-> k.codec, format |-> k.format, loudness |-> l, range |-> r, peak |-> p] :
        k \in Kinds, l \in Loudnesses, r \in Ranges, p \in Peaks }
AlbumLoudnesses == {dB(0 - 20), dB(0 - 16)}
AlbumContents ==
    { c \in [loudness : AlbumLoudnesses, range : Ranges, ok : BOOLEAN] :
        c.ok \/ c.loudness = dB(0 - 20) }
\* What ebur128_loudness_global_multiple and ebur128_loudness_range_multiple
\* (scan.cpp:651, :662) give for the accumulators of the n files m: for one
\* accumulator they are ebur128_loudness_global and ebur128_loudness_range
\* (scan.cpp:449, :459) of that accumulator
MeasuredTogether(n, m) ==
    IF n = 1 THEN { [loudness |-> m[1].loudness, range |-> m[1].range, ok |-> TRUE] }
    ELSE AlbumContents
Pregains == {dB(0), dB(2)}
\* --tagmode of a run that scans: write ('i', 'e') or scan only ('s')
TagModes == {"s", "i", "e"}
PeakLevels == {dB(0 - 1)}

\* The library of a run of processLibrary: FLAC files, member i of a
\* folder with true peak -i dB
RunContent ==
    [t \in Tracks |->
        [codec |-> "FLAC", format |-> "flac", loudness |-> dB(0 - 20),
         range |-> dB(6), peak |-> Amp(dB(0 - t[2]))]]
RunAlbumContent ==
    [f \in Folders |-> [loudness |-> dB(0 - 20), range |-> dB(6), ok |-> TRUE]]

\* The value members of AudioFile as declared (scan.hpp:97-113)
NewAudioFile ==
    [avCodecId |-> "NONE", avFormat |-> "",
     trackGain |-> 0, trackPeak |-> ZeroAmp, newTrackPeak |-> ZeroAmp,
     trackLoudness |-> 0, trackLoudnessRange |-> 0, trackClips |-> FALSE,
     albumGain |-> 0, albumPeak |-> ZeroAmp, newAlbumPeak |-> ZeroAmp,
     albumLoudness |-> 0, albumLoudnessRange |-> 0, albumClips |-> FALSE,
     loudnessReference |-> 0,
     trackClipPrevention |-> FALSE, albumClipPrevention |-> FALSE]

\* ------------------------------------------------------------------------
\* mvWorkStealingQueue
\* ------------------------------------------------------------------------
push(q, t) == Append(q, t)
empty(q) == q = <<>>
\* try_pop: the element at the front, and the rest
try_pop_res(q) == Head(q)
\* Variant: try_pop leaves the task in the deque
try_pop_rest_kept(q) == q

try_pop_rest(q) == Tail(q)
\* try_steal: the element at the back, and the rest
try_steal_res(q) == q[Len(q)]
try_steal_rest(q) == SubSeq(q, 1, Len(q) - 1)

\* Position at which a worker starts to execute a task (task() at
\* mvThreadPool.h:271)
TaskEntry(t) ==
    CASE t.kind = "scan" -> "scan_status"
      [] t.kind = "folder" -> "f_construct"
      [] t.kind = "file" -> "t_construct"
      [] t.kind = "rm" -> "rm_run"
      [] t.kind = "gen" -> "gen_run"

Running == proc = "running"

\* ------------------------------------------------------------------------
\* mvThreadPool: worker threads
\* ------------------------------------------------------------------------
\* while (!m_done) run_pending_task();
worker_thread(w) ==
    /\ Running
    /\ wpc[w] = "while"
    /\ wpc' = [wpc EXCEPT ![w] = IF m_done THEN "exited" ELSE "pop_local"]
    /\ UNCHANGED <<poolVars, wi, wtask, wm, ctlVars, clientVars, libVars, numVars, lgVars>>

\* m_local_work_queue && m_local_work_queue->try_pop(task)
pop_task_from_local_queue(w) ==
    /\ Running
    /\ wpc[w] = "pop_local"
    /\ IF empty(m_queues[w])
       THEN /\ wpc' = [wpc EXCEPT ![w] = "pop_pool"]
            /\ UNCHANGED <<m_queues, wtask>>
       ELSE /\ wtask' = [wtask EXCEPT ![w] = try_pop_res(m_queues[w])]
            /\ m_queues' = [m_queues EXCEPT ![w] = try_pop_rest(m_queues[w])]
            /\ wpc' = [wpc EXCEPT ![w] = TaskEntry(try_pop_res(m_queues[w]))]
    /\ UNCHANGED <<m_wait_for_idle, m_done, m_pool_work_queue, m_idling, wi, wm,
                   ctlVars, clientVars, libVars, numVars, lgVars>>

\* m_pool_work_queue.try_pop(task)
pop_task_from_pool_queue(w) ==
    /\ Running
    /\ wpc[w] = "pop_pool"
    /\ IF empty(m_pool_work_queue)
       THEN /\ wpc' = [wpc EXCEPT ![w] = "pop_other"]
            /\ wi' = [wi EXCEPT ![w] = 0]
            /\ UNCHANGED <<m_pool_work_queue, wtask>>
       ELSE /\ wtask' = [wtask EXCEPT ![w] = try_pop_res(m_pool_work_queue)]
            /\ m_pool_work_queue' = try_pop_rest(m_pool_work_queue)
            /\ wpc' = [wpc EXCEPT ![w] = TaskEntry(try_pop_res(m_pool_work_queue))]
            /\ UNCHANGED wi
    /\ UNCHANGED <<m_wait_for_idle, m_done, m_queues, m_idling, wm,
                   ctlVars, clientVars, libVars, numVars, lgVars>>

\* One iteration of the loop of pop_task_from_other_thread_queue:
\* index = (m_index + i + 1) % m_queues.size(); m_queues[index]->try_pop(task)
OtherIndex(w, i) == (w + i + 1) % NumWorkers

pop_task_from_other_thread_queue(w) ==
    /\ Running
    /\ wpc[w] = "pop_other"
    /\ LET index == OtherIndex(w, wi[w]) IN
       IF empty(m_queues[index])
       THEN /\ IF wi[w] + 1 < NumWorkers
               THEN /\ wi' = [wi EXCEPT ![w] = wi[w] + 1]
                    /\ UNCHANGED wpc
               ELSE /\ wi' = [wi EXCEPT ![w] = 0]
                    /\ wpc' = [wpc EXCEPT ![w] = "idle_read"]
            /\ UNCHANGED <<m_queues, wtask>>
       ELSE /\ wtask' = [wtask EXCEPT ![w] = try_pop_res(m_queues[index])]
            /\ m_queues' = [m_queues EXCEPT ![index] = try_pop_rest(m_queues[index])]
            /\ wpc' = [wpc EXCEPT ![w] = TaskEntry(try_pop_res(m_queues[index]))]
            /\ wi' = [wi EXCEPT ![w] = 0]
    /\ UNCHANGED <<m_wait_for_idle, m_done, m_pool_work_queue, m_idling, wm,
                   ctlVars, clientVars, libVars, numVars, lgVars>>

\* Variant: the flag is set whether or not wait_for_idle is in progress
run_pending_task_test_always(w) ==
    /\ Running
    /\ wpc[w] = "idle_read"
    /\ wpc' = [wpc EXCEPT ![w] = IF ~m_idling[w] THEN "idle_write" ELSE "while"]
    /\ UNCHANGED <<poolVars, wi, wtask, wm, ctlVars, clientVars, libVars, numVars, lgVars>>

\* else branch of run_pending_task, the test:
\* if (m_wait_for_idle && !m_idling[m_index])
run_pending_task_test(w) ==
    /\ Running
    /\ wpc[w] = "idle_read"
    /\ wpc' = [wpc EXCEPT ![w] =
                 IF m_wait_for_idle /\ ~m_idling[w] THEN "idle_write" ELSE "while"]
    /\ UNCHANGED <<poolVars, wi, wtask, wm, ctlVars, clientVars, libVars, numVars, lgVars>>

\* else branch of run_pending_task, the store: m_idling[m_index] = true
run_pending_task_mark(w) ==
    /\ Running
    /\ wpc[w] = "idle_write"
    /\ m_idling' = [m_idling EXCEPT ![w] = TRUE]
    /\ wpc' = [wpc EXCEPT ![w] = "while"]
    /\ UNCHANGED <<m_wait_for_idle, m_done, m_pool_work_queue, m_queues, wi, wtask, wm,
                   ctlVars, clientVars, libVars, numVars, lgVars>>

\* ------------------------------------------------------------------------
\* mvThreadPool: submit, wait_for_idle, wait_for_finished
\* ------------------------------------------------------------------------
\* Variant: the task is not pushed
submit_lost(q, t) == q

\* submit from a thread that is not a worker: m_local_work_queue is null
submit(q, t) == push(q, t)

Call(target, ret) ==
    /\ cpc' = target
    /\ cstack' = <<ret>> \o cstack

Return ==
    /\ cpc' = Head(cstack)
    /\ cstack' = Tail(cstack)

\* m_wait_for_idle = true; bool finished = false; while (!finished) { finished = true;
wait_for_idle_begin ==
    /\ Running
    /\ cpc = "wfi_set"
    /\ m_wait_for_idle' = TRUE
    /\ finished' = TRUE
    /\ ci' = 0
    /\ cpc' = "wfi_read"
    /\ UNCHANGED <<m_done, m_pool_work_queue, m_queues, m_idling, workerVars,
                   cstack, clientVars, libVars, numVars, lgVars>>

\* for (i ...) if (!m_idling[i]) finished = false;  and the test of the while
wait_for_idle_poll ==
    /\ Running
    /\ cpc = "wfi_read"
    /\ IF ci < NumWorkers
       THEN /\ finished' = (finished /\ m_idling[ci])
            /\ ci' = ci + 1
            /\ UNCHANGED cpc
       ELSE /\ ci' = 0
            /\ finished' = TRUE
            /\ cpc' = IF finished THEN "wfi_clear" ELSE "wfi_read"
    /\ UNCHANGED <<poolVars, workerVars, cstack, clientVars, libVars, numVars, lgVars>>

\* m_wait_for_idle = false;
wait_for_idle_clear ==
    /\ Running
    /\ cpc = "wfi_clear"
    /\ m_wait_for_idle' = FALSE
    /\ ci' = 0
    /\ cpc' = "wfi_reset"
    /\ UNCHANGED <<m_done, m_pool_work_queue, m_queues, m_idling, workerVars,
                   cstack, finished, clientVars, libVars, numVars, lgVars>>

\* for (i ...) m_idling[i] = false;
wait_for_idle_reset ==
    /\ Running
    /\ cpc = "wfi_reset"
    /\ IF ci < NumWorkers
       THEN /\ m_idling' = [m_idling EXCEPT ![ci] = FALSE]
            /\ ci' = ci + 1
            /\ UNCHANGED cpc
       ELSE /\ ci' = 0
            /\ cpc' = "wfi_return"
            /\ UNCHANGED m_idling
    /\ UNCHANGED <<m_wait_for_idle, m_done, m_pool_work_queue, m_queues, workerVars,
                   cstack, finished, clientVars, libVars, numVars, lgVars>>

wait_for_idle_return ==
    /\ Running
    /\ cpc = "wfi_return"
    /\ Return
    /\ UNCHANGED <<poolVars, workerVars, ci, finished, clientVars, libVars, numVars, lgVars>>

\* wait_for_idle();
wait_for_finished_begin ==
    /\ Running
    /\ cpc = "wff"
    /\ Call("wfi_set", "wff_done")
    /\ UNCHANGED <<poolVars, workerVars, ci, finished, clientVars, libVars, numVars, lgVars>>

\* m_done = true;
wait_for_finished_done ==
    /\ Running
    /\ cpc = "wff_done"
    /\ m_done' = TRUE
    /\ ci' = 0
    /\ cpc' = "wff_join"
    /\ UNCHANGED <<m_wait_for_idle, m_pool_work_queue, m_queues, m_idling, workerVars,
                   cstack, finished, clientVars, libVars, numVars, lgVars>>

\* for (auto& thread : m_threads) if (thread.joinable()) thread.join();
wait_for_finished_join ==
    /\ Running
    /\ cpc = "wff_join"
    /\ IF ci < NumWorkers
       THEN /\ wpc[ci] = "exited"
            /\ ci' = ci + 1
            /\ UNCHANGED cpc
       ELSE /\ ci' = 0
            /\ cpc' = "wff_return"
    /\ UNCHANGED <<poolVars, workerVars, cstack, finished, clientVars, libVars, numVars, lgVars>>

wait_for_finished_return ==
    /\ Running
    /\ cpc = "wff_return"
    /\ Return
    /\ UNCHANGED <<poolVars, workerVars, ci, finished, clientVars, libVars, numVars, lgVars>>

\* ------------------------------------------------------------------------
\* Generic tasks: what std::packaged_task::operator() does with the callable
\* (mvThreadPool.h:204 and :271).  An exception thrown by the callable is
\* stored in the shared state of the future; the call itself returns.
\* ------------------------------------------------------------------------
\* Variant: the exception leaves the call and unwinds the worker thread
packaged_task_call_escapes(throws) ==
    IF throws THEN [fut |-> "pending", pc |-> "crashed"]
              ELSE [fut |-> "value", pc |-> "while"]

packaged_task_call(throws) ==
    IF throws THEN [fut |-> "exception", pc |-> "while"]
              ELSE [fut |-> "value", pc |-> "while"]

\* task() for a generic task; behaviour 2 first submits a child from the
\* worker, where m_local_work_queue is the worker's own deque
run_generic_task(w) ==
    /\ Running
    /\ wpc[w] = "gen_run"
    /\ LET id == wtask[w].a
           b == wtask[w].b IN
       IF b = 2
       THEN /\ m_queues' = [m_queues EXCEPT ![w] = submit(m_queues[w], Task("gen", ChildOf(id), 0))]
            /\ fut' = [fut EXCEPT ![ChildOf(id)] = "pending"]
            /\ chained' = TRUE
            /\ wtask' = [wtask EXCEPT ![w] = Task("gen", id, 0)]
            /\ UNCHANGED wpc
       ELSE /\ fut' = [fut EXCEPT ![id] = packaged_task_call(b = 1).fut]
            /\ wpc' = [wpc EXCEPT ![w] = packaged_task_call(b = 1).pc]
            /\ wtask' = [wtask EXCEPT ![w] = NoTask]
            /\ UNCHANGED <<m_queues, chained>>
    /\ UNCHANGED <<m_wait_for_idle, m_done, m_pool_work_queue, m_idling, wi, wm,
                   ctlVars, got, nsub, nbar, libVars, numVars, lgVars>>

\* ------------------------------------------------------------------------
\* A generic client of the pool: the controller thread submits tasks, waits
\* on futures and calls the two barriers
\* ------------------------------------------------------------------------
ClientSubmit ==
    /\ Running
    /\ cpc = "client"
    /\ nsub < MaxTasks
    /\ \E b \in 0 .. 2 :
         m_pool_work_queue' = submit(m_pool_work_queue, Task("gen", nsub + 1, b))
    /\ fut' = [fut EXCEPT ![nsub + 1] = "pending"]
    /\ nsub' = nsub + 1
    /\ UNCHANGED <<m_wait_for_idle, m_done, m_queues, m_idling, workerVars, ctlVars,
                   got, nbar, chained, libVars, numVars, lgVars>>

\* future.get(): blocks until the shared state is ready, then returns the
\* value or rethrows the stored exception
ClientGet ==
    /\ Running
    /\ cpc = "client"
    /\ \E id \in 1 .. MaxTasks :
         /\ fut[id] \in {"value", "exception"}
         /\ got[id] = "none"
         /\ got' = [got EXCEPT ![id] = fut[id]]
    /\ UNCHANGED <<poolVars, workerVars, ctlVars, fut, nsub, nbar, chained,
                   libVars, numVars, lgVars>>

ClientWaitForIdle ==
    /\ Running
    /\ cpc = "client"
    /\ nbar < MaxBarriers
    /\ nbar' = nbar + 1
    /\ Call("wfi_set", "client")
    /\ UNCHANGED <<poolVars, workerVars, ci, finished, fut, got, nsub, chained,
                   libVars, numVars, lgVars>>

ClientWaitForFinished ==
    /\ Running
    /\ cpc = "client"
    /\ Call("wff", "client_end")
    /\ UNCHANGED <<poolVars, workerVars, ci, finished, clientVars, libVars, numVars, lgVars>>

\* ------------------------------------------------------------------------
\* Initial states
\* ------------------------------------------------------------------------
\* mvThreadPool(threadcount): flags false, deques empty, workers started
InitPoolVars ==
    /\ m_wait_for_idle = FALSE
    /\ m_done = FALSE
    /\ m_pool_work_queue = <<>>
    /\ m_queues = [w \in Workers |-> <<>>]
    /\ m_idling = [w \in Workers |-> FALSE]
    /\ wpc = [w \in Workers |-> "while"]
    /\ wi = [w \in Workers |-> 0]
    /\ wtask = [w \in Workers |-> NoTask]
    /\ wm = [w \in Workers |-> 1]
    /\ cstack = <<>>
    /\ ci = 0
    /\ finished = FALSE
    /\ fut = [id \in GenIds |-> "none"]
    /\ got = [id \in GenIds |-> "none"]
    /\ nsub = 0
    /\ nbar = 0
    /\ chained = FALSE

\* AudioFile members (scan.hpp:96-114) and the locals of processLibrary
InitLoudGainVars ==
    /\ it = 1
    /\ si = 1
    /\ tr_count = 0
    /\ audio_folders = <<>>
    /\ held = {}
    /\ af = 1
    /\ cf = 1
    /\ ai = 1
    /\ scanStatus = [t \in Tracks |-> "NONE"]
    /\ trackDone = [t \in Tracks |-> FALSE]
    /\ albumWrites = [t \in Tracks |-> 0]
    /\ audioFile = [t \in Tracks |-> NewAudioFile]
    /\ aggCount = [f \in Folders |-> 0]
    /\ aggResult = [f \in Folders |-> "none"]
    /\ trackOut = [t \in Tracks |-> 0]
    /\ albumOut = [f \in Folders |-> 0]
    /\ errOut = {}
    /\ proc = "running"
    /\ exitStatus = 0
    /\ exitBy = "none"

\* The options as declared (loudgain.hpp:79-88); scanAlbum is set by
\* setAlbumScanMode (main, part_001:216)
InitOptions(album) ==
    /\ pregain = dB(0)
    /\ maxTruePeakLevel = dB(0 - 1)
    /\ preventClipping = TRUE
    /\ scanAlbum = album

InitStepVars(pc) ==
    /\ gpc = pc
    /\ gi = 1
    /\ tgain = Amp(0)
    /\ again = Amp(0)
    /\ logOfZero = FALSE
    /\ npass = [t \in Tracks |-> 0]

\* tagMode = 's' unless --tagmode is given (part_000:89, part_001:217-220),
\* the CSV file is open when --output-csv is given (part_001:234-235)
InitRun(tm, csv) ==
    /\ tagMode = tm
    /\ tagWrites = [t \in Tracks |-> 0]
    /\ clears = [t \in Tracks |-> 0]
    /\ csvOpen = csv
    /\ csvWriter = {}

\* The pool of the model has NumWorkers threads
InitThreadsSet ==
    /\ mthrds = U32(NumWorkers)
    /\ nArg = U32(NumWorkers)
    /\ numberOfThreads = U32(NumWorkers)
    /\ pl_nthreads = U32(NumWorkers)
    /\ tpc = "off"

InitPool ==
    /\ InitPoolVars
    /\ InitLoudGainVars
    /\ mode = "pool"
    /\ lib = <<1>>
    /\ cpc = "client"
    /\ content = RunContent
    /\ albumContent = RunAlbumContent
    /\ InitOptions(FALSE)
    /\ InitStepVars("off")
    /\ InitRun("s", FALSE)
    /\ InitThreadsSet

WorkerLoop(w) ==
    \/ worker_thread(w)
    \/ pop_task_from_local_queue(w)
    \/ pop_task_from_pool_queue(w)
    \/ pop_task_from_other_thread_queue(w)
    \/ run_pending_task_test(w)
    \/ run_pending_task_mark(w)

Barriers ==
    \/ wait_for_idle_begin
    \/ wait_for_idle_poll
    \/ wait_for_idle_clear
    \/ wait_for_idle_reset
    \/ wait_for_idle_return
    \/ wait_for_finished_begin
    \/ wait_for_finished_done
    \/ wait_for_finished_join
    \/ wait_for_finished_return

NextPool ==
    \/ \E w \in Workers : WorkerLoop(w)
    \/ \E w \in Workers : run_generic_task(w)
    \/ Barriers
    \/ ClientSubmit
    \/ ClientGet
    \/ ClientWaitForIdle
    \/ ClientWaitForFinished

SpecPool == InitPool /\ [][NextPool]_vars

\* ------------------------------------------------------------------------
\* Properties of the pool
\* ------------------------------------------------------------------------
Submitted(id) == fut[id] # "none"
Completed(id) == fut[id] \in {"value", "exception"}
Executing(w) == wtask[w] # NoTask
QueuesEmpty == m_pool_work_queue = <<>> /\ \A w \in Workers : m_queues[w] = <<>>
AllCompleted == \A id \in GenIds : Submitted(id) => Completed(id)

\* C2: when only the controller has submitted tasks, at the moment
\* wait_for_idle returns every submitted task has finished, the shared deque
\* and the workers' deques are empty and no worker is executing a task.
C2_IdleBarrierQuiescent ==
    (cpc = "wfi_return" /\ ~chained) =>
        /\ AllCompleted
        /\ QueuesEmpty
        /\ \A w \in Workers : ~Executing(w)

\* C3 (safety part): when wait_for_finished returns every submitted task has
\* completed, the done signal is set and every worker has left its run loop.
C3_FinishedMeansDone ==
    cpc = "wff_return" =>
        /\ AllCompleted
        /\ m_done
        /\ \A w \in Workers : wpc[w] = "exited"

\* ------------------------------------------------------------------------
\* AudioFile / AudioFolder (scan.cpp)
\* ------------------------------------------------------------------------
\* The track a worker's scanFile call works on
WorkerTrack(w) ==
    IF wtask[w].kind = "folder" THEN <<wtask[w].a, wm[w]>>
                                ELSE <<wtask[w].a, wtask[w].b>>

\* scanFile has finished on a track: it returned false (FAIL) or wrote the
\* track fields
ScanFinished(t) == scanStatus[t] = "FAIL" \/ trackDone[t]

\* Position of a worker after its scanFile call returned `ok`
AfterScan(w, ok) ==
    CASE wtask[w].kind = "scan" -> "while"
      [] wtask[w].kind = "file" -> "t_paf"
      [] wtask[w].kind = "folder" ->
            \* AudioFolder::scanFolder: return false on the first failure,
            \* processScanResults after the last member
            IF ~ok THEN "f_paf"
            ELSE IF wm[w] < lib[wtask[w].a] THEN "scan_status" ELSE "f_psr"

\* #define LUFS_TO_RG(L) (-18 - L) (scan.cpp:72)
\* Variant: the reference of EBU R128 (-23 LUFS) instead of ReplayGain's
LUFS_TO_RG_23(L) == dB(0 - 23) - L

LUFS_TO_RG(L) == dB(0 - 18) - L

\* AudioFile::scanFile: container and codec as found when the file is
\* opened (scan.cpp:239, :349)
Opened(a, c) == [a EXCEPT !.avFormat = c.format, !.avCodecId = c.codec]

\* if (... == AV_CODEC_ID_OPUS) pregain -= 5.0 (scan.cpp:480-481, :694-695)
\* Variant: the pregain is used as given
OpusPregain_same(opus, pg) == pg

OpusPregain(opus, pg) == IF opus THEN pg - dB(5) ELSE pg

\* AudioFile::scanFile: the results saved (scan.cpp:479-487); c is what
\* libebur128 measured, pg the pregain argument
SaveResults(a, c, pg) ==
    LET eff == OpusPregain(a.avCodecId = "OPUS", pg) IN
    [a EXCEPT !.trackGain = LUFS_TO_RG(c.loudness) + eff,
              !.trackPeak = MaxAmp(ZeroAmp, c.peak),
              !.trackLoudness = c.loudness,
              !.trackLoudnessRange = c.range,
              !.loudnessReference = LUFS_TO_RG(0 - eff)]

\* AudioFile::scanFile up to the store to scanStatus: every early return
\* stores FAIL (scan.cpp:236-464), the success path stores SUCCESS at :477
AudioFile_scanFile(w) ==
    /\ Running
    /\ wpc[w] = "scan_status"
    /\ \E ok \in BOOLEAN :
         LET t == WorkerTrack(w) IN
         IF ok
         THEN /\ scanStatus' = [scanStatus EXCEPT ![t] = "SUCCESS"]
              /\ audioFile' = [audioFile EXCEPT ![t] = Opened(@, content[t])]
              /\ wpc' = [wpc EXCEPT ![w] = "scan_fields"]
              /\ UNCHANGED <<wtask, wm>>
         ELSE /\ scanStatus' = [scanStatus EXCEPT ![t] = "FAIL"]
              /\ UNCHANGED audioFile
              /\ wpc' = [wpc EXCEPT ![w] = AfterScan(w, FALSE)]
              /\ wtask' = [wtask EXCEPT ![w] = IF wtask[w].kind = "scan" THEN NoTask ELSE @]
              /\ UNCHANGED wm
    /\ UNCHANGED <<poolVars, wi, ctlVars, clientVars, libVars, numVars, loopVars,
                   trackDone, albumWrites, aggVars, outVars, procVars>>

\* AudioFile::scanFile, the stores to the track fields (scan.cpp:483-487)
AudioFile_scanFile_save(w) ==
    /\ Running
    /\ wpc[w] = "scan_fields"
    /\ trackDone' = [trackDone EXCEPT ![WorkerTrack(w)] = TRUE]
    /\ audioFile' = [audioFile EXCEPT ![WorkerTrack(w)] =
                        SaveResults(@, content[WorkerTrack(w)], pregain)]
    /\ wpc' = [wpc EXCEPT ![w] = AfterScan(w, TRUE)]
    /\ wtask' = [wtask EXCEPT ![w] = IF wtask[w].kind = "scan" THEN NoTask ELSE @]
    /\ wm' = [wm EXCEPT ![w] = IF wtask[w].kind = "folder" /\ wm[w] < lib[wtask[w].a]
                               THEN wm[w] + 1 ELSE @]
    /\ UNCHANGED <<poolVars, wi, ctlVars, clientVars, libVars, numVars, loopVars,
                   scanStatus, albumWrites, aggVars, outVars, procVars>>

\* AudioFolder::processScanResults: the result.  `measured` is the outcome
\* of the library calls and of the container/codec check (scan.cpp:651-690)
AllSucceeded(f) == \A t \in Members(f) : scanStatus[t] = "SUCCESS"

\* AudioFolder::hasDifferentContainers (scan.cpp:598-604)
hasDifferentContainers(f) ==
    \E t \in Members(f) : audioFile[<<f, 1>>].avFormat # audioFile[t].avFormat

\* AudioFolder::hasDifferentCodecs (scan.cpp:606-612)
hasDifferentCodecs(f) ==
    \E t \in Members(f) : audioFile[<<f, 1>>].avCodecId # audioFile[t].avCodecId

\* AudioFolder::hasOpus (scan.cpp:614-620)
hasOpus(f) == \E t \in Members(f) : audioFile[t].avCodecId = "OPUS"

\* The warning of processScanResults (scan.cpp:675, :684-689)
WarnsDifferentTypes(f) ==
    (hasDifferentContainers(f) \/ hasDifferentCodecs(f)) /\ ~hasOpus(f)

\* The return false of processScanResults for Opus (scan.cpp:675-683)
RejectsOpus(f) == (hasDifferentContainers(f) \/ hasDifferentCodecs(f)) /\ hasOpus(f)

\* Variant: only the first member's status is tested
processScanResults_first(f, measured) ==
    scanStatus[<<f, 1>>] = "SUCCESS" /\ measured /\ ~RejectsOpus(f)

processScanResults(f, measured) == AllSucceeded(f) /\ measured /\ ~RejectsOpus(f)

\* album_peak of processScanResults (scan.cpp:697-699) after n members
\* Variant: no album peak is computed
album_peak_none(f, n) == ZeroAmp

RECURSIVE album_peak(_, _)
album_peak(f, n) ==
    IF n = 0 THEN ZeroAmp
    ELSE MaxAmp(album_peak(f, n - 1), audioFile[<<f, n>>].trackPeak)

\* AudioFolder::processScanResults: the AudioFile objects after the call
\* (scan.cpp:694-708)
AudioFilesAfter(f, measured) ==
    [t \in Tracks |->
        IF processScanResults(f, measured) /\ t \in Members(f)
        THEN [audioFile[t] EXCEPT
                !.albumGain = LUFS_TO_RG(albumContent[f].loudness)
                                + OpusPregain(hasOpus(f), pregain),
                !.albumPeak = album_peak(f, lib[f]),
                !.albumLoudness = albumContent[f].loudness,
                !.albumLoudnessRange = albumContent[f].range]
        ELSE audioFile[t]]

\* AudioFolder::processScanResults: the album fields after the call
\* (scan.cpp:701-708)
AlbumFieldsAfter(f, measured) ==
    [t \in Tracks |->
        IF processScanResults(f, measured) /\ t \in Members(f)
        THEN albumWrites[t] + 1 ELSE albumWrites[t]]

\* LoudGain::processAudioFile(AudioFile&): a record is emitted only for a
\* track whose scan succeeded (loudgain.cpp:512-518)
\* Variant: the test of the scan status is inverted
EmitsTrackRecord_failed(t) == scanStatus[t] # "SUCCESS"

EmitsTrackRecord(t) == scanStatus[t] = "SUCCESS"

TrackOutAfter(t) ==
    [u \in Tracks |-> IF u = t /\ EmitsTrackRecord(t) THEN trackOut[u] + 1 ELSE trackOut[u]]

\* if (tagMode == 'i' || tagMode == 'e') tagManager.writeRGTags(...)
\* (loudgain.cpp:561-562), reached only past the return at :517
\* Variant: the tag mode is not consulted
WritesTags_always(t) == scanStatus[t] = "SUCCESS"

WritesTags(t) == scanStatus[t] = "SUCCESS" /\ tagMode \in {"i", "e"}

TagWritesAfter(t) ==
    [u \in Tracks |-> IF u = t /\ WritesTags(t) THEN tagWrites[u] + 1 ELSE tagWrites[u]]

\* ------------------------------------------------------------------------
\* LoudGain::processAudioFile(AudioFile&): clipping (loudgain.cpp:520-559)
\* ------------------------------------------------------------------------
\* tpeak and apeak: pow(10.0, maxTruePeakLevel / 20.0) (:521, :523)
PeakLimit == pow10(maxTruePeakLevel)

\* pow(10.0, gain / 20.0) * peak (:526, :533, :557, :559)
PeakAfterGain(gain, peak) == Times(pow10(gain), peak)

\* tgain > tpeak (:527), again > apeak (:534)
\* Variant: a peak at the limit counts as clipping
WouldClip_atLimit(g, limit) == ~Greater(limit, g)

WouldClip(g, limit) == Greater(g, limit)

\* The flags after :526-536
ClipFlags(a) ==
    [a EXCEPT
       !.trackClips = @ \/ WouldClip(PeakAfterGain(a.trackGain, a.trackPeak), PeakLimit),
       !.albumClips = @ \/ (scanAlbum /\
                            WouldClip(PeakAfterGain(a.albumGain, a.albumPeak), PeakLimit))]

\* (audio_file.trackClips || audio_file.albumClips) && preventClipping (:539)
Prevents(b) == (b.trackClips \/ b.albumClips) /\ preventClipping

\* if (audio_file.trackClips) (:541)
\* Variant: the track is corrected whenever the block is entered
CorrectsTrack_always(b) == TRUE

CorrectsTrack(b) == b.trackClips

\* if (scanAlbum && audio_file.albumClips) (:549)
\* Variant: the album is corrected whenever the block is entered
CorrectsAlbum_entered(b) == scanAlbum

CorrectsAlbum(b) == scanAlbum /\ b.albumClips

\* gain - (log10(g / limit) * 20.0) (:544, :551); e is the rounding error
\* of the double evaluation
LoweredGain(gain, g, limit, e) == gain - (log10x20(g, limit) + e)

\* The block :539-555; et and ea are the rounding errors of :544 and :551
PreventClipping(a, et, ea) ==
    LET b == ClipFlags(a)
        c == IF Prevents(b) /\ CorrectsTrack(b)
             THEN [b EXCEPT
                     !.trackGain = LoweredGain(@, PeakAfterGain(a.trackGain, a.trackPeak),
                                               PeakLimit, et),
                     !.trackClips = FALSE,
                     !.trackClipPrevention = TRUE]
             ELSE b
    IN  IF Prevents(b) /\ CorrectsAlbum(b)
        THEN [c EXCEPT
                !.albumGain = LoweredGain(@, PeakAfterGain(a.albumGain, a.albumPeak),
                                          PeakLimit, ea),
                !.albumClips = FALSE,
                !.albumClipPrevention = TRUE]
        ELSE c

\* log10 is taken of a zero peak in the block :539-555
TakesLogOfZero(a) ==
    LET b == ClipFlags(a) IN
    /\ Prevents(b)
    /\ \/ CorrectsTrack(b) /\ PeakAfterGain(a.trackGain, a.trackPeak).zero
       \/ CorrectsAlbum(b) /\ PeakAfterGain(a.albumGain, a.albumPeak).zero

\* newTrackPeak and newAlbumPeak (:557-559)
NewPeaks(a) ==
    [a EXCEPT
       !.newTrackPeak = PeakAfterGain(a.trackGain, a.trackPeak),
       !.newAlbumPeak = IF scanAlbum THEN PeakAfterGain(a.albumGain, a.albumPeak) ELSE @]

\* The AudioFile after :520-559
ClippingStep(a, et, ea) == NewPeaks(PreventClipping(a, et, ea))

\* AudioFile::AudioFile: exit(EXIT_FAILURE) when the path is not a regular
\* file (scan.cpp:76-82)
Exit(who) ==
    /\ proc' = "exit"
    /\ exitStatus' = 1
    /\ exitBy' = who

\* ------------------------------------------------------------------------
\* Tasks of LoudGain run by a worker
\* ------------------------------------------------------------------------
\* LoudGain::processAudioFolder(paths): AudioFolder audio_folder(paths)
processAudioFolder_paths(w) ==
    /\ Running
    /\ wpc[w] = "f_construct"
    /\ \E regular \in BOOLEAN :
         IF regular
         THEN /\ wpc' = [wpc EXCEPT ![w] = "scan_status"]
              /\ wm' = [wm EXCEPT ![w] = 1]
              /\ UNCHANGED procVars
         ELSE /\ Exit("worker")
              /\ UNCHANGED <<wpc, wm>>
    /\ UNCHANGED <<poolVars, wi, wtask, ctlVars, clientVars, libVars, numVars, loopVars,
                   trackVars, aggVars, outVars>>

\* AudioFolder::scanFolder: return processScanResults(pregain) (scan.cpp:635).
\* The outcome of the measurement is kept in the task (b = 1 succeeded,
\* b = 2 failed): the second call on the same accumulators gives the same.
AudioFolder_scanFolder_results(w) ==
    /\ Running
    /\ wpc[w] = "f_psr"
    /\ \E measured \in BOOLEAN :
         /\ albumWrites' = AlbumFieldsAfter(wtask[w].a, measured)
         /\ audioFile' = AudioFilesAfter(wtask[w].a, measured)
         /\ wtask' = [wtask EXCEPT ![w].b = IF measured THEN 1 ELSE 2]
    /\ wpc' = [wpc EXCEPT ![w] = "f_paf"]
    /\ UNCHANGED <<poolVars, wi, wm, ctlVars, clientVars, libVars, numVars, loopVars,
                   scanStatus, trackDone, aggVars, outVars, procVars>>

\* LoudGain::processAudioFolder(AudioFolder&) in a worker: the call of
\* processScanResults and the failure report (loudgain.cpp:629-640)
processAudioFolder_worker(w) ==
    /\ Running
    /\ wpc[w] = "f_paf"
    /\ LET f == wtask[w].a IN
       \E measured \in BOOLEAN :
         /\ wtask[w].b = 1 => measured
         /\ wtask[w].b = 2 => ~measured
         /\ albumWrites' = AlbumFieldsAfter(f, measured)
         /\ audioFile' = AudioFilesAfter(f, measured)
         /\ aggCount' = [aggCount EXCEPT ![f] = @ + 1]
         /\ IF processScanResults(f, measured)
            THEN /\ aggResult' = [aggResult EXCEPT ![f] = "ok"]
                 /\ wpc' = [wpc EXCEPT ![w] = "f_file"]
                 /\ wm' = [wm EXCEPT ![w] = 1]
                 /\ UNCHANGED <<errOut, wtask>>
            ELSE /\ aggResult' = [aggResult EXCEPT ![f] = "failed"]
                 /\ errOut' = errOut \cup {f}
                 /\ wpc' = [wpc EXCEPT ![w] = "while"]
                 /\ wtask' = [wtask EXCEPT ![w] = NoTask]
                 /\ UNCHANGED wm
    /\ UNCHANGED <<poolVars, wi, ctlVars, clientVars, libVars, numVars, loopVars,
                   scanStatus, trackDone, trackOut, albumOut, procVars>>

\* One iteration of the member loop of processAudioFolder in a worker:
\* processAudioFile(audio_file) (loudgain.cpp:642-645)
processAudioFolder_worker_file(w) ==
    /\ Running
    /\ wpc[w] = "f_file"
    /\ LET f == wtask[w].a
           t == <<wtask[w].a, wm[w]>> IN
       /\ trackOut' = TrackOutAfter(t)
       /\ tagWrites' = TagWritesAfter(t)
       /\ IF wm[w] = lib[f]
          THEN /\ wpc' = [wpc EXCEPT ![w] = "f_album"]
               /\ UNCHANGED wm
          ELSE /\ wm' = [wm EXCEPT ![w] = @ + 1]
               /\ UNCHANGED wpc
    /\ UNCHANGED <<poolVars, wi, wtask, ctlVars, clientVars, libVars, pafRest, csvWriter, loopVars,
                   trackVars, aggVars, albumOut, errOut, procVars>>

\* The album record after processAudioFile of the last member, in a worker
\* (loudgain.cpp:647-694)
processAudioFolder_worker_album(w) ==
    /\ Running
    /\ wpc[w] = "f_album"
    /\ albumOut' = [albumOut EXCEPT ![wtask[w].a] = @ + 1]
    /\ wpc' = [wpc EXCEPT ![w] = "while"]
    /\ wtask' = [wtask EXCEPT ![w] = NoTask]
    /\ UNCHANGED <<poolVars, wi, wm, ctlVars, clientVars, libVars, numVars, loopVars,
                   trackVars, aggVars, trackOut, errOut, procVars>>

\* LoudGain::processAudioFile(path): AudioFile audio_file(path)
processAudioFile_path(w) ==
    /\ Running
    /\ wpc[w] = "t_construct"
    /\ \E regular \in BOOLEAN :
         IF regular
         THEN /\ wpc' = [wpc EXCEPT ![w] = "scan_status"]
              /\ UNCHANGED procVars
         ELSE /\ Exit("worker")
              /\ UNCHANGED wpc
    /\ UNCHANGED <<poolVars, wi, wtask, wm, ctlVars, clientVars, libVars, numVars, loopVars,
                   trackVars, aggVars, outVars>>

\* LoudGain::processAudioFile(path): processAudioFile(audio_file).  With
\* the CSV file open the thread enters csvfile << line.str()
\* (loudgain.cpp:564-580), which no lock protects; the record is counted
\* when the insertion returns
processAudioFile_worker(w) ==
    /\ Running
    /\ wpc[w] = "t_paf"
    /\ tagWrites' = TagWritesAfter(WorkerTrack(w))
    /\ IF csvOpen /\ EmitsTrackRecord(WorkerTrack(w))
       THEN /\ csvWriter' = csvWriter \cup {w}
            /\ wpc' = [wpc EXCEPT ![w] = "t_csv"]
            /\ UNCHANGED <<trackOut, wtask>>
       ELSE /\ trackOut' = TrackOutAfter(WorkerTrack(w))
            /\ wpc' = [wpc EXCEPT ![w] = "while"]
            /\ wtask' = [wtask EXCEPT ![w] = NoTask]
            /\ UNCHANGED csvWriter
    /\ UNCHANGED <<poolVars, wi, wm, ctlVars, clientVars, libVars, pafRest, loopVars,
                   trackVars, aggVars, albumOut, errOut, procVars>>

\* csvfile << line.str() returns (loudgain.cpp:579), then the output on
\* std::cout and the return of the task
processAudioFile_csv(w) ==
    /\ Running
    /\ wpc[w] = "t_csv"
    /\ csvWriter' = csvWriter \ {w}
    /\ trackOut' = TrackOutAfter(WorkerTrack(w))
    /\ wpc' = [wpc EXCEPT ![w] = "while"]
    /\ wtask' = [wtask EXCEPT ![w] = NoTask]
    /\ UNCHANGED <<poolVars, wi, wm, ctlVars, clientVars, libVars, pafRest, tagWrites,
                   loopVars, trackVars, aggVars, albumOut, errOut, procVars>>

\* LoudGain::removeReplayGainTags(path) (loudgain.cpp:698-706): returns at
\* once when tagMode == 'd'; otherwise AudioFile(path), initFile() and, when
\* that succeeded, clearRGTags
removeReplayGainTags(w) ==
    /\ Running
    /\ wpc[w] = "rm_run"
    /\ IF tagMode = "d"
       THEN /\ wpc' = [wpc EXCEPT ![w] = "while"]
            /\ wtask' = [wtask EXCEPT ![w] = NoTask]
            /\ UNCHANGED <<clears, procVars>>
       ELSE \E regular \in BOOLEAN, initFile \in BOOLEAN :
              IF regular
              THEN /\ clears' = [clears EXCEPT ![WorkerTrack(w)] =
                                    IF initFile THEN @ + 1 ELSE @]
                   /\ wpc' = [wpc EXCEPT ![w] = "while"]
                   /\ wtask' = [wtask EXCEPT ![w] = NoTask]
                   /\ UNCHANGED procVars
              ELSE /\ Exit("worker")
                   /\ UNCHANGED <<clears, wpc, wtask>>
    /\ UNCHANGED <<poolVars, wi, wm, ctlVars, clientVars, libVars, inputVars, optVars,
                   stepVars, tagMode, tagWrites, csvVars, thrVars, loopVars,
                   trackVars, aggVars, outVars>>

\* ------------------------------------------------------------------------
\* LoudGain::processLibrary, run by the controller (loudgain.cpp:398-500)
\* ------------------------------------------------------------------------
\* unsigned nthreads = std::max<unsigned>(1, numberOfThreads)
nthreads == NumWorkers

\* Variant: the per-folder path is taken from 5*nthreads folders on
PerFolderPath_atLeast == NumFolders >= FolderFactor * nthreads

\* sorted_audio_files.size() > 5*nthreads (loudgain.cpp:430)
PerFolderPath == NumFolders > FolderFactor * nthreads

\* it->second->size() <= 1000 (loudgain.cpp:438)
SmallFolder(f) == lib[f] <= SmallFolderMax

\* tr_count >= 2000 (loudgain.cpp:463)
\* Variant: the ceiling itself is still accepted
WaveFull_above(n) == n > TrackCeiling

WaveFull(n) == n >= TrackCeiling

processLibrary_begin ==
    /\ Running
    /\ cpc = "pl_start"
    /\ cpc' = IF tagMode = "d" THEN "rm_submit"
              ELSE IF mode = "track" THEN "tm_submit"
              ELSE IF PerFolderPath THEN "pf_next" ELSE "wv_next"
    /\ UNCHANGED <<poolVars, workerVars, cstack, ci, finished, clientVars, libVars, numVars, lgVars>>

\* Tag mode 'd': one removeReplayGainTags task per file, then
\* wait_for_finished (loudgain.cpp:402-415)
processLibrary_delete ==
    /\ Running
    /\ cpc = "rm_submit"
    /\ IF it > NumFolders
       THEN /\ Call("wff", "pl_end")
            /\ UNCHANGED <<m_pool_work_queue, it, si>>
       ELSE /\ m_pool_work_queue' = submit(m_pool_work_queue, Task("rm", it, si))
            /\ IF si < lib[it]
               THEN si' = si + 1 /\ UNCHANGED it
               ELSE si' = 1 /\ it' = it + 1
            /\ UNCHANGED <<cpc, cstack>>
    /\ UNCHANGED <<m_wait_for_idle, m_done, m_queues, m_idling, workerVars, ci, finished,
                   clientVars, libVars, numVars, tr_count, audio_folders, held, af, cf, ai,
                   trackVars, aggVars, outVars, procVars>>

\* Track mode: one task per file, then wait_for_finished (loudgain.cpp:494-497)
processLibrary_track ==
    /\ Running
    /\ cpc = "tm_submit"
    /\ IF it > NumFolders
       THEN /\ Call("wff", "pl_end")
            /\ UNCHANGED <<m_pool_work_queue, it, si>>
       ELSE /\ m_pool_work_queue' = submit(m_pool_work_queue, Task("file", it, si))
            /\ IF si < lib[it]
               THEN si' = si + 1 /\ UNCHANGED it
               ELSE si' = 1 /\ it' = it + 1
            /\ UNCHANGED <<cpc, cstack>>
    /\ UNCHANGED <<m_wait_for_idle, m_done, m_queues, m_idling, workerVars, ci, finished,
                   clientVars, libVars, numVars, tr_count, audio_folders, held, af, cf, ai,
                   trackVars, aggVars, outVars, procVars>>

\* Per-folder path, head of the loop: a small folder becomes one task
\* (loudgain.cpp:436-439); after the loop wait_for_finished (:449)
processLibrary_folder ==
    /\ Running
    /\ cpc = "pf_next"
    /\ IF it > NumFolders
       THEN /\ Call("wff", "pl_end")
            /\ UNCHANGED <<m_pool_work_queue, it>>
       ELSE IF SmallFolder(it)
       THEN /\ m_pool_work_queue' = submit(m_pool_work_queue, Task("folder", it, 0))
            /\ it' = it + 1
            /\ UNCHANGED <<cpc, cstack>>
       ELSE /\ cpc' = "pf_construct"
            /\ UNCHANGED <<m_pool_work_queue, it, cstack>>
    /\ UNCHANGED <<m_wait_for_idle, m_done, m_queues, m_idling, workerVars, ci, finished,
                   clientVars, libVars, numVars, si, tr_count, audio_folders, held, af, cf, ai,
                   trackVars, aggVars, outVars, procVars>>

\* Per-folder path, large folder: make_shared<AudioFolder> (loudgain.cpp:442)
processLibrary_large_construct ==
    /\ Running
    /\ cpc = "pf_construct"
    /\ \E regular \in BOOLEAN :
         IF regular
         THEN /\ held' = {it}
              /\ si' = 1
              /\ cpc' = "pf_submit"
              /\ UNCHANGED procVars
         ELSE /\ Exit("controller")
              /\ UNCHANGED <<held, si, cpc>>
    /\ UNCHANGED <<poolVars, workerVars, cstack, ci, finished, clientVars, libVars, numVars,
                   it, tr_count, audio_folders, af, cf, ai, trackVars, aggVars, outVars>>

\* Per-folder path, large folder: one scan task per member, then
\* wait_for_idle (loudgain.cpp:443-445)
processLibrary_large_submit ==
    /\ Running
    /\ cpc = "pf_submit"
    /\ IF si <= lib[it]
       THEN /\ m_pool_work_queue' = submit(m_pool_work_queue, Task("scan", it, si))
            /\ si' = si + 1
            /\ UNCHANGED <<cpc, cstack>>
       ELSE /\ Call("wfi_set", "pf_process")
            /\ UNCHANGED <<m_pool_work_queue, si>>
    /\ UNCHANGED <<m_wait_for_idle, m_done, m_queues, m_idling, workerVars, ci, finished,
                   clientVars, libVars, numVars, it, tr_count, audio_folders, held, af, cf, ai,
                   trackVars, aggVars, outVars, procVars>>

\* Per-folder path, large folder: processAudioFolder(*audio_folder) (:446)
processLibrary_large_process ==
    /\ Running
    /\ cpc = "pf_process"
    /\ cf' = it
    /\ Call("paf_psr", "pf_release")
    /\ UNCHANGED <<poolVars, workerVars, ci, finished, clientVars, libVars, numVars,
                   it, si, tr_count, audio_folders, held, af, ai,
                   trackVars, aggVars, outVars, procVars>>

\* Per-folder path, large folder: end of the block, audio_folder goes out
\* of scope (:447)
processLibrary_large_release ==
    /\ Running
    /\ cpc = "pf_release"
    /\ held' = {}
    /\ it' = it + 1
    /\ cpc' = "pf_next"
    /\ UNCHANGED <<poolVars, workerVars, cstack, ci, finished, clientVars, libVars, numVars,
                   si, tr_count, audio_folders, af, cf, ai,
                   trackVars, aggVars, outVars, procVars>>

\* Wave path, head of the loop: construct the next folder, add its size to
\* tr_count and test the ceiling (loudgain.cpp:459-465); after the loop
\* wait_for_finished (:476)
processLibrary_wave ==
    /\ Running
    /\ cpc = "wv_next"
    /\ IF it > NumFolders
       THEN /\ Call("wff", "wv_final")
            /\ af' = 1
            /\ UNCHANGED <<held, tr_count, audio_folders, si, procVars>>
       ELSE \E regular \in BOOLEAN :
            IF regular
            THEN /\ held' = held \cup {it}
                 /\ tr_count' = tr_count + lib[it]
                 /\ IF WaveFull(tr_count + lib[it])
                    THEN /\ Call("wfi_set", "wv_flush")
                         /\ af' = 1
                         /\ UNCHANGED <<audio_folders, si>>
                    ELSE /\ audio_folders' = Append(audio_folders, it)
                         /\ si' = 1
                         /\ cpc' = "wv_submit"
                         /\ UNCHANGED <<cstack, af>>
                 /\ UNCHANGED procVars
            ELSE /\ Exit("controller")
                 /\ UNCHANGED <<held, tr_count, audio_folders, si, af, cpc, cstack>>
    /\ UNCHANGED <<poolVars, workerVars, ci, finished, clientVars, libVars, numVars,
                   it, cf, ai, trackVars, aggVars, outVars>>

\* Wave path, the flush after wait_for_idle: processAudioFolder for every
\* folder of the wave, clear, restart the count, then push the new folder
\* (loudgain.cpp:466-472)
processLibrary_wave_flush ==
    /\ Running
    /\ cpc = "wv_flush"
    /\ IF af <= Len(audio_folders)
       THEN /\ cf' = audio_folders[af]
            /\ af' = af + 1
            /\ Call("paf_psr", "wv_flush")
            /\ UNCHANGED <<audio_folders, held, tr_count, si>>
       ELSE /\ audio_folders' = <<it>>
            /\ held' = {it}
            /\ tr_count' = lib[it]
            /\ si' = 1
            /\ cpc' = "wv_submit"
            /\ UNCHANGED <<cf, af, cstack>>
    /\ UNCHANGED <<poolVars, workerVars, ci, finished, clientVars, libVars, numVars,
                   it, ai, trackVars, aggVars, outVars, procVars>>

\* Wave path: one scan task per member of the new folder (loudgain.cpp:473-474)
processLibrary_wave_submit ==
    /\ Running
    /\ cpc = "wv_submit"
    /\ IF si <= lib[it]
       THEN /\ m_pool_work_queue' = submit(m_pool_work_queue, Task("scan", it, si))
            /\ si' = si + 1
            /\ UNCHANGED <<cpc, it>>
       ELSE /\ it' = it + 1
            /\ cpc' = "wv_next"
            /\ UNCHANGED <<m_pool_work_queue, si>>
    /\ UNCHANGED <<m_wait_for_idle, m_done, m_queues, m_idling, workerVars, cstack, ci,
                   finished, clientVars, libVars, numVars, tr_count, audio_folders, held, af, cf, ai,
                   trackVars, aggVars, outVars, procVars>>

\* Wave path, after wait_for_finished: processAudioFolder for every folder
\* of the last wave (loudgain.cpp:478-479)
processLibrary_wave_final ==
    /\ Running
    /\ cpc = "wv_final"
    /\ IF af <= Len(audio_folders)
       THEN /\ cf' = audio_folders[af]
            /\ af' = af + 1
            /\ Call("paf_psr", "wv_final")
       ELSE /\ cpc' = "pl_end"
            /\ UNCHANGED <<cf, af, cstack>>
    /\ UNCHANGED <<poolVars, workerVars, ci, finished, clientVars, libVars, numVars,
                   it, si, tr_count, audio_folders, held, ai,
                   trackVars, aggVars, outVars, procVars>>

\* The return after the failure report of processAudioFolder
\* (loudgain.cpp:639): back to the caller's loop
\* Variant: a failed folder ends the caller's loop
processAudioFolder_failed_abort ==
    /\ cpc' = "pl_end"
    /\ cstack' = <<>>

processAudioFolder_failed_return == Return

\* LoudGain::processAudioFolder(AudioFolder&) in the controller: the call
\* of processScanResults and the failure report (loudgain.cpp:629-640)
processAudioFolder ==
    /\ Running
    /\ cpc = "paf_psr"
    /\ \E measured \in BOOLEAN :
         /\ albumWrites' = AlbumFieldsAfter(cf, measured)
         /\ audioFile' = AudioFilesAfter(cf, measured)
         /\ aggCount' = [aggCount EXCEPT ![cf] = @ + 1]
         /\ IF processScanResults(cf, measured)
            THEN /\ aggResult' = [aggResult EXCEPT ![cf] = "ok"]
                 /\ ai' = 1
                 /\ cpc' = "paf_file"
                 /\ UNCHANGED <<errOut, cstack>>
            ELSE /\ aggResult' = [aggResult EXCEPT ![cf] = "failed"]
                 /\ errOut' = errOut \cup {cf}
                 /\ processAudioFolder_failed_return
                 /\ UNCHANGED ai
    /\ UNCHANGED <<poolVars, workerVars, ci, finished, clientVars, libVars, numVars,
                   it, si, tr_count, audio_folders, held, af, cf,
                   scanStatus, trackDone, trackOut, albumOut, procVars>>

\* One iteration of the member loop of processAudioFolder in the controller:
\* processAudioFile(audio_file) (loudgain.cpp:642-645)
processAudioFolder_file ==
    /\ Running
    /\ cpc = "paf_file"
    /\ trackOut' = TrackOutAfter(<<cf, ai>>)
    /\ tagWrites' = TagWritesAfter(<<cf, ai>>)
    /\ IF ai = lib[cf]
       THEN /\ cpc' = "paf_album"
            /\ UNCHANGED ai
       ELSE /\ ai' = ai + 1
            /\ UNCHANGED cpc
    /\ UNCHANGED <<poolVars, workerVars, cstack, ci, finished, clientVars, libVars, pafRest, csvWriter,
                   it, si, tr_count, audio_folders, held, af, cf,
                   trackVars, aggVars, albumOut, errOut, procVars>>

\* The album record after processAudioFile of the last member, in the
\* controller (loudgain.cpp:647-694)
processAudioFolder_album ==
    /\ Running
    /\ cpc = "paf_album"
    /\ albumOut' = [albumOut EXCEPT ![cf] = @ + 1]
    /\ Return
    /\ UNCHANGED <<poolVars, workerVars, ci, finished, clientVars, libVars, numVars,
                   it, si, tr_count, audio_folders, held, af, cf, ai,
                   trackVars, aggVars, trackOut, errOut, procVars>>

\* processLibrary returns, closeCsvFile, return 0 (main, part_001:246-263)
main_return ==
    /\ Running
    /\ cpc = "pl_end"
    /\ held' = {}
    /\ audio_folders' = <<>>
    /\ proc' = "returned"
    /\ exitStatus' = 0
    /\ cpc' = "returned"
    /\ UNCHANGED <<poolVars, workerVars, cstack, ci, finished, clientVars, libVars, numVars,
                   it, si, tr_count, af, cf, ai, trackVars, aggVars, outVars, exitBy>>

\* ------------------------------------------------------------------------
\* The run of LoudGain
\* ------------------------------------------------------------------------
Init ==
    /\ InitPoolVars
    /\ InitLoudGainVars
    /\ mode \in {"album", "track"}
    /\ lib \in Libraries
    /\ mode = "track" => SumSeq(lib) <= MaxFileTasks
    /\ cpc = "pl_start"
    /\ content = RunContent
    /\ albumContent = RunAlbumContent
    /\ InitOptions(mode = "album")
    /\ InitStepVars("off")
    /\ InitRun("s", FALSE)
    /\ InitThreadsSet

WorkerTasks(w) ==
    \/ AudioFile_scanFile(w)
    \/ AudioFile_scanFile_save(w)
    \/ processAudioFolder_paths(w)
    \/ AudioFolder_scanFolder_results(w)
    \/ processAudioFolder_worker(w)
    \/ processAudioFolder_worker_file(w)
    \/ processAudioFolder_worker_album(w)
    \/ processAudioFile_path(w)
    \/ processAudioFile_worker(w)

Controller ==
    \/ processLibrary_begin
    \/ processLibrary_track
    \/ processLibrary_folder
    \/ processLibrary_large_construct
    \/ processLibrary_large_submit
    \/ processLibrary_large_process
    \/ processLibrary_large_release
    \/ processLibrary_wave
    \/ processLibrary_wave_flush
    \/ processLibrary_wave_submit
    \/ processLibrary_wave_final
    \/ processAudioFolder
    \/ processAudioFolder_file
    \/ processAudioFolder_album
    \/ main_return

Next ==
    \/ \E w \in Workers : WorkerLoop(w)
    \/ \E w \in Workers : WorkerTasks(w)
    \/ Barriers
    \/ Controller

Spec == Init /\ [][Next]_vars

\* ------------------------------------------------------------------------
\* The run of LoudGain on the files one by one (track mode, or tag mode
\* 'd') for any tag mode, with or without --output-csv
\* ------------------------------------------------------------------------
MaxFiles == 2          \* files of the library of that run
RecordFolderSize == 2  \* records of the folder whose accumulators are followed

RunTagModes == {"d", "i", "s"}

InitOpt ==
    /\ InitPoolVars
    /\ InitLoudGainVars
    /\ mode = "track"
    /\ lib \in { l \in Libraries : SumSeq(l) <= MaxFiles }
    /\ cpc = "pl_start"
    /\ content = RunContent
    /\ albumContent = RunAlbumContent
    /\ InitOptions(FALSE)
    /\ InitStepVars("off")
    /\ \E tm \in RunTagModes, csv \in BOOLEAN : InitRun(tm, csv)
    /\ InitThreadsSet

FileTasks(w) ==
    \/ AudioFile_scanFile(w)
    \/ AudioFile_scanFile_save(w)
    \/ processAudioFile_path(w)
    \/ processAudioFile_worker(w)
    \/ processAudioFile_csv(w)
    \/ removeReplayGainTags(w)

FileController ==
    \/ processLibrary_begin
    \/ processLibrary_delete
    \/ processLibrary_track
    \/ main_return

NextOpt ==
    \/ \E w \in Workers : WorkerLoop(w)
    \/ \E w \in Workers : FileTasks(w)
    \/ Barriers
    \/ FileController

SpecOpt == InitOpt /\ [][NextOpt]_vars

\* ------------------------------------------------------------------------
\* The number of threads: main calls setNumberOfThreads (part_001:237), then
\* processLibrary computes nthreads (loudgain.cpp:400), for any parallelism
\* the platform reports and any request
\* ------------------------------------------------------------------------
MaxHardware == 8       \* greatest value of hardware_concurrency()
MaxRequest == 9        \* greatest argument of setNumberOfThreads

thrRest == <<poolVars, workerVars, ctlVars, clientVars, libVars, lgVars,
             inputVars, optVars, stepVars, tagVars, csvVars>>

\* LoudGain::setNumberOfThreads (loudgain.cpp:262-270): the value stored in
\* numberOfThreads for the argument n when hardware_concurrency() is hc
setNumberOfThreads_value(n, hc) ==
    IF n = U32(0) THEN U32_dec(hc) ELSE U32_min(n, hc)

setNumberOfThreads ==
    /\ mode = "threads"
    /\ tpc = "set"
    /\ numberOfThreads' = setNumberOfThreads_value(nArg, mthrds)
    /\ tpc' = "lib"
    /\ UNCHANGED <<thrRest, mthrds, nArg, pl_nthreads>>

\* unsigned nthreads = std::max<unsigned>(1, numberOfThreads) (loudgain.cpp:400)
processLibrary_nthreads ==
    /\ mode = "threads"
    /\ tpc = "lib"
    /\ pl_nthreads' = U32_max(U32(1), numberOfThreads)
    /\ tpc' = "done"
    /\ UNCHANGED <<thrRest, mthrds, nArg, numberOfThreads>>

\* numberOfThreads = 1 as declared (part_000:92)
InitThreads ==
    /\ InitPoolVars
    /\ InitLoudGainVars
    /\ mode = "threads"
    /\ lib = <<1>>
    /\ cpc = "off"
    /\ content = RunContent
    /\ albumContent = RunAlbumContent
    /\ InitOptions(FALSE)
    /\ InitStepVars("off")
    /\ InitRun("s", FALSE)
    /\ mthrds \in { U32(h) : h \in 0 .. MaxHardware }
    /\ nArg \in { U32(k) : k \in 0 .. MaxRequest }
    /\ numberOfThreads = U32(1)
    /\ pl_nthreads = U32(1)
    /\ tpc = "set"

NextThreads ==
    \/ setNumberOfThreads
    \/ processLibrary_nthreads

SpecThreads == InitThreads /\ [][NextThreads]_vars

\* ------------------------------------------------------------------------
\* One thread that scans and processes one folder, for any content of the
\* files and any options: in album mode the body of
\* processAudioFolder(paths) (loudgain.cpp:619-624), in track mode
\* processAudioFile(path) for each file (loudgain.cpp:502-507)
\* ------------------------------------------------------------------------
seqRest == <<poolVars, workerVars, ctlVars, clientVars, libVars, loopVars,
             procVars, inputVars, optVars, tagMode, clears, csvVars, thrVars>>

\* AudioFile::scanFile (scan.cpp:224-490) on the member gi; in album mode
\* inside the loop of AudioFolder::scanFolder (scan.cpp:631-633)
Seq_scanFile ==
    /\ mode = "gain"
    /\ gpc = "g_scan"
    /\ LET t == <<1, gi>> IN
       \E ok \in BOOLEAN :
         IF ok
         THEN /\ scanStatus' = [scanStatus EXCEPT ![t] = "SUCCESS"]
              /\ trackDone' = [trackDone EXCEPT ![t] = TRUE]
              /\ audioFile' = [audioFile EXCEPT ![t] =
                                  SaveResults(Opened(@, content[t]), content[t], pregain)]
              /\ gpc' = IF ~scanAlbum THEN "g_paf"
                        ELSE IF gi < lib[1] THEN "g_scan" ELSE "g_psr"
              /\ gi' = IF scanAlbum /\ gi < lib[1] THEN gi + 1 ELSE gi
         ELSE /\ scanStatus' = [scanStatus EXCEPT ![t] = "FAIL"]
              /\ gpc' = IF scanAlbum THEN "g_paf_psr" ELSE "g_paf"
              /\ UNCHANGED <<trackDone, audioFile, gi>>
    /\ UNCHANGED <<seqRest, albumWrites, aggVars, outVars, tgain, again, logOfZero, npass,
                   tagWrites>>

\* AudioFolder::scanFolder: return processScanResults(pregain) (scan.cpp:635)
Seq_scanFolder_results ==
    /\ mode = "gain"
    /\ gpc = "g_psr"
    /\ albumWrites' = AlbumFieldsAfter(1, albumContent[1].ok)
    /\ audioFile' = AudioFilesAfter(1, albumContent[1].ok)
    /\ gpc' = "g_paf_psr"
    /\ UNCHANGED <<seqRest, scanStatus, trackDone, aggVars, outVars,
                   gi, tgain, again, logOfZero, npass, tagWrites>>

\* LoudGain::processAudioFolder(AudioFolder&): the call of processScanResults
\* and the failure report (loudgain.cpp:629-640)
Seq_processAudioFolder ==
    /\ mode = "gain"
    /\ gpc = "g_paf_psr"
    /\ albumWrites' = AlbumFieldsAfter(1, albumContent[1].ok)
    /\ audioFile' = AudioFilesAfter(1, albumContent[1].ok)
    /\ aggCount' = [aggCount EXCEPT ![1] = @ + 1]
    /\ IF processScanResults(1, albumContent[1].ok)
       THEN /\ aggResult' = [aggResult EXCEPT ![1] = "ok"]
            /\ gpc' = "g_paf"
            /\ gi' = 1
            /\ UNCHANGED errOut
       ELSE /\ aggResult' = [aggResult EXCEPT ![1] = "failed"]
            /\ errOut' = errOut \cup {1}
            /\ gpc' = "g_done"
            /\ UNCHANGED gi
    /\ UNCHANGED <<seqRest, scanStatus, trackDone, trackOut, albumOut,
                   tgain, again, logOfZero, npass, tagWrites>>

\* LoudGain::processAudioFile(AudioFile&) on the member gi
\* (loudgain.cpp:509-617), then the next member or file
Seq_processAudioFile ==
    /\ mode = "gain"
    /\ gpc = "g_paf"
    /\ LET t == <<1, gi>>
           a == audioFile[t] IN
       /\ IF scanStatus[t] = "SUCCESS"
          THEN /\ \E et \in Err, ea \in Err :
                    audioFile' = [audioFile EXCEPT ![t] = ClippingStep(a, et, ea)]
               /\ tgain' = PeakAfterGain(a.trackGain, a.trackPeak)
               /\ again' = IF scanAlbum THEN PeakAfterGain(a.albumGain, a.albumPeak)
                           ELSE Amp(0)
               /\ logOfZero' = (logOfZero \/ TakesLogOfZero(a))
               /\ npass' = [npass EXCEPT ![t] = @ + 1]
          ELSE UNCHANGED <<audioFile, tgain, again, logOfZero, npass>>
       /\ trackOut' = TrackOutAfter(t)
       /\ tagWrites' = TagWritesAfter(t)
       /\ albumOut' = IF scanAlbum /\ gi = lib[1]
                      THEN [albumOut EXCEPT ![1] = @ + 1] ELSE albumOut
       /\ gi' = IF gi < lib[1] THEN gi + 1 ELSE gi
       /\ gpc' = IF gi = lib[1] THEN "g_done"
                 ELSE IF scanAlbum THEN "g_paf" ELSE "g_scan"
    /\ UNCHANGED <<seqRest, scanStatus, trackDone, albumWrites, aggVars, errOut>>

\* The clipping step (loudgain.cpp:520-559) applied once more to a track
\* that has been processed
Seq_processAudioFile_again ==
    /\ mode = "gain"
    /\ gpc = "g_done"
    /\ \E t \in Members(1) :
         LET a == audioFile[t] IN
         /\ npass[t] >= 1
         /\ npass[t] < MaxPasses
         /\ \E et \in Err, ea \in Err :
              audioFile' = [audioFile EXCEPT ![t] = ClippingStep(a, et, ea)]
         /\ tgain' = PeakAfterGain(a.trackGain, a.trackPeak)
         /\ again' = IF scanAlbum THEN PeakAfterGain(a.albumGain, a.albumPeak)
                     ELSE Amp(0)
         /\ logOfZero' = (logOfZero \/ TakesLogOfZero(a))
         /\ npass' = [npass EXCEPT ![t] = @ + 1]
    /\ UNCHANGED <<seqRest, scanStatus, trackDone, albumWrites, aggVars, outVars,
                   gpc, gi, tagWrites>>

InitGain ==
    /\ InitPoolVars
    /\ InitLoudGainVars
    /\ mode = "gain"
    /\ cpc = "off"
    /\ pregain \in Pregains
    /\ maxTruePeakLevel \in PeakLevels
    /\ preventClipping \in BOOLEAN
    /\ scanAlbum \in BOOLEAN
    /\ \E n \in 1 .. GainFolderSize :
         \E m \in [1 .. n -> Contents] :
           /\ lib = <<n>>
           /\ content = [t \in Tracks |->
                           IF t[1] = 1 /\ t[2] <= n THEN m[t[2]] ELSE RunContent[t]]
           /\ \E ac \in (IF scanAlbum THEN MeasuredTogether(n, m) ELSE {RunAlbumContent[1]}) :
                albumContent = [f \in Folders |-> IF f = 1 THEN ac ELSE RunAlbumContent[f]]
    /\ InitStepVars("g_scan")
    /\ InitRun("s", FALSE)
    /\ InitThreadsSet

NextGain ==
    \/ Seq_scanFile
    \/ Seq_scanFolder_results
    \/ Seq_processAudioFolder
    \/ Seq_processAudioFile
    \/ Seq_processAudioFile_again

SpecGain == InitGain /\ [][NextGain]_vars

\* The same thread for any tag mode, on files of one container, one
\* loudness and one peak
TagContents ==
    { c \in Contents : c.format = "ogg" /\ c.loudness = dB(0 - 20) /\ c.peak = Amp(dB(0)) }

InitTag ==
    /\ InitPoolVars
    /\ InitLoudGainVars
    /\ mode = "gain"
    /\ cpc = "off"
    /\ \E album \in BOOLEAN : InitOptions(album)
    /\ \E n \in 1 .. GainFolderSize :
         \E m \in [1 .. n -> TagContents] :
           /\ lib = <<n>>
           /\ content = [t \in Tracks |->
                           IF t[1] = 1 /\ t[2] <= n THEN m[t[2]] ELSE RunContent[t]]
           /\ \E ac \in (IF scanAlbum THEN MeasuredTogether(n, m) ELSE {RunAlbumContent[1]}) :
                albumContent = [f \in Folders |-> IF f = 1 THEN ac ELSE RunAlbumContent[f]]
    /\ InitStepVars("g_scan")
    /\ \E tm \in TagModes : InitRun(tm, FALSE)
    /\ InitThreadsSet

SpecTag == InitTag /\ [][NextGain]_vars

\* ------------------------------------------------------------------------
\* Properties of the run
\* ------------------------------------------------------------------------
Range(q) == { q[i] : i \in 1 .. Len(q) }

RECURSIVE SumTracks(_)
SumTracks(S) ==
    IF S = {} THEN 0
    ELSE LET f == CHOOSE x \in S : TRUE IN lib[f] + SumTracks(S \ {f})

AllQueued == Range(m_pool_work_queue) \cup UNION { Range(m_queues[w]) : w \in Workers }

\* A scan task of track t is queued, or a worker holds it
ScanQueued(t) == Task("scan", t[1], t[2]) \in AllQueued
ScanExecuting(t) == \E w \in Workers : wtask[w] = Task("scan", t[1], t[2])

\* AudioFolder objects alive: referenced by the controller, by a scan task
\* (std::bind copies the shared_ptr) or local to a folder task
LiveFolders ==
    held
    \cup { f \in Folders : \E t \in AllQueued : t.kind = "scan" /\ t.a = f }
    \cup { f \in Folders : \E w \in Workers : wtask[w].kind = "scan" /\ wtask[w].a = f }
    \cup { f \in Folders : \E w \in Workers :
              wtask[w].kind = "folder" /\ wtask[w].a = f /\ wpc[w] # "f_construct" }

\* Track Records resident: AudioFile objects held by live AudioFolder objects
Resident == SumTracks(LiveFolders)

OnWavePath == mode = "album" /\ ~PerFolderPath
Aggregating == cpc \in {"paf_psr", "paf_file", "paf_album"}

\* C1: in album mode every member scan of a folder has finished scanFile
\* (status and track fields written) when processScanResults for that folder
\* starts, in the controller and in a folder task.
C1_ScansBeforeAggregation ==
    /\ cpc = "paf_psr" => \A t \in Members(cf) : ScanFinished(t)
    /\ \A w \in Workers :
         wpc[w] = "f_psr" => \A t \in Members(wtask[w].a) : ScanFinished(t)

\* C5 as stated: in album mode fewer than the ceiling of Track Records are
\* resident at any instant.
C5_ResidentBelowCeiling ==
    mode = "album" => Resident < TrackCeiling

\* C5 as amended: on the wave path the controller references only the wave
\* and the folder it has just constructed, and a wave of two or more
\* folders holds fewer Track Records than the ceiling.
C5_WaveBelowCeiling ==
    OnWavePath =>
        /\ held \subseteq Range(audio_folders) \cup {it}
        /\ Len(audio_folders) >= 2 => SumTracks(Range(audio_folders)) < TrackCeiling
        /\ cpc \in {"wv_submit", "wv_next"} => tr_count = SumTracks(Range(audio_folders))

\* A wave of two folders exists while a third folder's worth of room is left
C5_Witness ==
    /\ OnWavePath
    /\ Len(audio_folders) >= 2
    /\ cpc = "wv_submit"

\* C6: on the wave path, while a folder is being aggregated no scan task of
\* any folder is queued or executing (so no scan of the next wave has been
\* submitted before the aggregation of this wave is complete).
C6_WavesDoNotOverlap ==
    (OnWavePath /\ Aggregating) =>
        \A t \in LibTracks : ~ScanQueued(t) /\ ~ScanExecuting(t)

\* C9: the process is never terminated from inside a task.
C9_NoExitInsideTask == exitBy # "worker"

\* C10: the exit status reports success exactly when no scheduled track
\* scan and no folder aggregation failed.
SomeFailure ==
    \/ \E t \in LibTracks : scanStatus[t] = "FAIL"
    \/ \E f \in 1 .. NumFolders : aggResult[f] = "failed"

C10_ExitStatusReflectsOutcome ==
    proc = "returned" => (exitStatus = 0 <=> ~SomeFailure)

EveryMemberSucceeded(f) == \A t \in Members(f) : scanStatus[t] = "SUCCESS"

\* C7: processScanResults writes album fields of a member only in a state
\* where every member of the folder has status SUCCESS; a processAudioFolder
\* call on a folder with a member that is NONE or FAIL fails and leaves the
\* album fields of every member unchanged.
C7_AlbumFieldsOnlyWhenAllSucceeded ==
    [][ \A f \in 1 .. NumFolders :
          /\ (\E t \in Members(f) : albumWrites'[t] # albumWrites[t])
                => EveryMemberSucceeded(f)
          /\ (aggCount'[f] # aggCount[f] /\ ~EveryMemberSucceeded(f))
                => /\ aggResult'[f] = "failed"
                   /\ \A t \in Members(f) : albumWrites'[t] = albumWrites[t]
      ]_vars

\* A folder failed although its first member succeeded, and no album field
\* of it was written
C7_Witness ==
    \E f \in 1 .. NumFolders :
        /\ lib[f] >= 2
        /\ aggResult[f] = "failed"
        /\ scanStatus[<<f, 1>>] = "SUCCESS"
        /\ scanStatus[<<f, 2>>] = "FAIL"
        /\ \A t \in Members(f) : albumWrites[t] = 0

\* C8: a failed folder is reported and gets no album record; the failing
\* call changes nothing of any other folder and returns to the caller's
\* loop, so that on the wave path every folder of the library has been
\* aggregated once when the run returns and every folder that succeeded
\* has its records.
C8_FailedFolderIsolated ==
    /\ [](\A f \in 1 .. NumFolders :
            aggResult[f] = "failed" => (f \in errOut /\ albumOut[f] = 0))
    /\ [][ (cpc = "paf_psr" /\ aggResult'[cf] = "failed") =>
              /\ cpc' = Head(cstack)
              /\ \A g \in 1 .. NumFolders : g # cf =>
                    /\ aggResult'[g] = aggResult[g]
                    /\ albumOut'[g] = albumOut[g]
                    /\ \A t \in Members(g) :
                          albumWrites'[t] = albumWrites[t] /\ trackOut'[t] = trackOut[t]
         ]_vars
    /\ [](OnWavePath /\ proc = "returned" =>
            \A f \in 1 .. NumFolders :
                /\ aggCount[f] = 1
                /\ aggResult[f] = "ok" =>
                      (albumOut[f] = 1 /\ \A t \in Members(f) : trackOut[t] = 1))

\* The run returned with one folder failed by a member scan and another
\* folder aggregated and output
C8_Witness ==
    /\ OnWavePath
    /\ proc = "returned"
    /\ \E f, g \in 1 .. NumFolders :
          /\ aggResult[f] = "failed"
          /\ \E t \in Members(f) : scanStatus[t] = "FAIL"
          /\ aggResult[g] = "ok"
          /\ albumOut[g] = 1

\* C4: an exception raised by a task is stored in its future and delivered
\* to the waiter; the worker that ran the task returns to its loop; no
\* other worker, queue or future is touched by the failing task.
C4_ExceptionCaptured ==
    /\ [](\A w \in Workers : wpc[w] # "crashed")
    /\ [](\A id \in GenIds : got[id] # "none" => got[id] = fut[id])
    /\ [][ \A w \in Workers :
             (wpc[w] = "gen_run" /\ wtask[w].b = 1 /\ wpc'[w] # "gen_run") =>
                /\ fut'[wtask[w].a] = "exception"
                /\ wpc'[w] = "while"
                /\ \A v \in Workers \ {w} : wpc'[v] = wpc[v] /\ wtask'[v] = wtask[v]
                /\ m_pool_work_queue' = m_pool_work_queue
                /\ m_queues' = m_queues
                /\ \A id \in GenIds \ {wtask[w].a} : fut'[id] = fut[id]
         ]_vars

\* The waiter received the exception of the first task, and a task
\* submitted after it has been executed
C4_Witness ==
    /\ got[1] = "exception"
    /\ fut[2] = "value"

\* ------------------------------------------------------------------------
\* Properties of the values
\* ------------------------------------------------------------------------
GainMembers == Members(1)
Processed(t) == npass[t] >= 1
FolderDone == mode = "gain" /\ gpc = "g_done"

\* C11: when the aggregation of a folder has failed, every member whose scan
\* succeeded still has its track record.
C11_TrackRecordsDespiteFailedAlbum ==
    (FolderDone /\ scanAlbum /\ aggResult[1] = "failed") =>
        \A t \in GainMembers : scanStatus[t] = "SUCCESS" => trackOut[t] >= 1

\* C12: when the scan of a member fails, every other member of the folder is
\* still scanned (its status is SUCCESS or FAIL, not NONE).
C12_SiblingsStillScanned ==
    (FolderDone /\ \E t \in GainMembers : scanStatus[t] = "FAIL") =>
        \A t \in GainMembers : scanStatus[t] # "NONE"

\* Reduction of the pregain for Opus, in tenths of a dB
OpusShift(opus) == IF opus THEN 50 ELSE 0

\* C13: after a successful scan the track gain is (-18 - loudness) + pregain,
\* the pregain reduced by 5 for an Opus track; after a successful
\* aggregation the album gain of every member is (-18 - album loudness) +
\* pregain, the pregain reduced by 5 when the folder contains Opus; an Opus
\* track of loudness -21 with pregain 0 has gain -2.
C13_GainDerivation ==
    \A t \in GainMembers :
        /\ (scanStatus[t] = "SUCCESS" /\ ~Processed(t)) =>
              /\ audioFile[t].trackGain =
                    ((0 - 180) - content[t].loudness)
                      + (pregain - OpusShift(content[t].codec = "OPUS"))
              /\ (content[t].codec = "OPUS" /\ content[t].loudness = 0 - 210 /\ pregain = 0)
                    => audioFile[t].trackGain = 0 - 20
        /\ (albumWrites[t] >= 1 /\ ~Processed(t)) =>
              audioFile[t].albumGain =
                 ((0 - 180) - albumContent[1].loudness)
                   + (pregain - OpusShift(\E u \in GainMembers : content[u].codec = "OPUS"))

C13_Witness ==
    /\ mode = "gain"
    /\ lib[1] = 2
    /\ aggResult[1] = "ok"
    /\ pregain = 0
    /\ \A t \in GainMembers :
          /\ content[t].codec = "OPUS"
          /\ content[t].loudness = 0 - 210
          /\ albumWrites[t] = 2
          /\ ~Processed(t)

\* C14 as stated: a track that is not Opus, of loudness -20 LUFS, scanned
\* with pregain 0, has track gain -2.0 dB and loudness reference -18.0 LUFS.
C14_ScenarioMinusTwo ==
    \A t \in GainMembers :
        (/\ scanStatus[t] = "SUCCESS"
         /\ content[t].codec # "OPUS"
         /\ content[t].loudness = 0 - 200
         /\ pregain = 0
         /\ ~Processed(t))
        => /\ audioFile[t].trackGain = 0 - 20
           /\ audioFile[t].loudnessReference = 0 - 180

\* C14 amended: a track that is not Opus, of loudness -20 LUFS, scanned with
\* pregain 0, has track gain +2.0 dB and loudness reference -18.0 LUFS.
C14_ScenarioPlusTwo ==
    \A t \in GainMembers :
        (/\ scanStatus[t] = "SUCCESS"
         /\ content[t].codec # "OPUS"
         /\ content[t].loudness = 0 - 200
         /\ pregain = 0
         /\ ~Processed(t))
        => /\ audioFile[t].trackGain = 20
           /\ audioFile[t].loudnessReference = 0 - 180

C14_Witness ==
    /\ mode = "gain"
    /\ ~scanAlbum
    /\ gpc = "g_paf"
    /\ scanStatus[<<1, gi>>] = "SUCCESS"
    /\ content[<<1, gi>>].codec = "FLAC"
    /\ content[<<1, gi>>].loudness = 0 - 200
    /\ pregain = 0

\* The first application of the clipping step to track t
FirstPass(t) == npass[t] = 0 /\ npass'[t] = 1

\* peak * 10^(gain/20) > 10^(limit/20), on the levels
ExceedsLimit(gain, peak, limit) == ~peak.zero /\ gain + peak.level > limit

\* What the clipping step does to one scope: flag, corrected flag and gain
\* before (g) and after (g2), for a peak p
ScopeAsClaimed(clips2, prevented2, g, g2, p) ==
    IF ExceedsLimit(g, p, maxTruePeakLevel)
    THEN IF preventClipping
         THEN /\ ~clips2
              /\ prevented2
              /\ (g - g2) - ((g + p.level) - maxTruePeakLevel) \in Err
         ELSE clips2 /\ ~prevented2 /\ g2 = g
    ELSE ~clips2 /\ ~prevented2 /\ g2 = g

\* C15: processAudioFile marks a scope as clipping exactly when peak times
\* 10^(gain/20) exceeds 10^(maxTruePeakLevel/20); with prevention it lowers
\* the gain by 20*log10(gained peak / ceiling) (as rounded), clears the flag
\* and sets the corrected flag; without prevention the gain stays and the
\* flag stays set.  The album scope is touched in album mode only.
C15_ClipDetectionAndPrevention ==
    [][\A t \in GainMembers :
         FirstPass(t) =>
            LET a == audioFile[t]
                b == audioFile'[t] IN
            /\ ScopeAsClaimed(b.trackClips, b.trackClipPrevention,
                              a.trackGain, b.trackGain, a.trackPeak)
            /\ IF scanAlbum
               THEN ScopeAsClaimed(b.albumClips, b.albumClipPrevention,
                                   a.albumGain, b.albumGain, a.albumPeak)
               ELSE /\ ~b.albumClips
                    /\ ~b.albumClipPrevention
                    /\ b.albumGain = a.albumGain]_vars

C15_Witness ==
    /\ mode = "gain"
    /\ scanAlbum
    /\ \E t, u \in GainMembers :
          /\ Processed(t)
          /\ audioFile[t].trackClipPrevention
          /\ audioFile[t].albumClipPrevention
          /\ Processed(u)
          /\ ~audioFile[u].trackClipPrevention
          /\ audioFile[u].albumClipPrevention

\* A new peak p is at most the limit
AtMostLimit(p) == p.zero \/ p.level <= maxTruePeakLevel

\* A new peak p is the limit
IsLimit(p) == ~p.zero /\ p.level = maxTruePeakLevel

\* C16: with prevention, the new track peak (and in album mode the
\* new album peak) of a processed track does not exceed the ceiling, and
\* is the ceiling when a correction was applied.
C16_NewPeakAtMostCeiling ==
    (mode = "gain" /\ preventClipping) =>
        \A t \in GainMembers :
            npass[t] = 1 =>
                /\ AtMostLimit(audioFile[t].newTrackPeak)
                /\ audioFile[t].trackClipPrevention => IsLimit(audioFile[t].newTrackPeak)
                /\ scanAlbum => AtMostLimit(audioFile[t].newAlbumPeak)
                /\ (scanAlbum /\ audioFile[t].albumClipPrevention)
                      => IsLimit(audioFile[t].newAlbumPeak)

\* The second application of the clipping step to track t
SecondPass(t) == npass[t] = 1 /\ npass'[t] = 2

SameGainsAndPeaks(a, b) ==
    /\ b.trackGain = a.trackGain
    /\ b.albumGain = a.albumGain
    /\ b.newTrackPeak = a.newTrackPeak
    /\ b.newAlbumPeak = a.newAlbumPeak

\* C17: a second application to a track whose would-clip flags
\* are false after the first leaves gains and new peaks as they were.
C17_SecondPassIdentical ==
    [][\A t \in GainMembers :
         (SecondPass(t) /\ ~audioFile[t].trackClips /\ ~audioFile[t].albumClips)
            => SameGainsAndPeaks(audioFile[t], audioFile'[t])]_vars

\* C18: a scope whose peak is zero gets neither the would-clip flag nor the
\* corrected flag and keeps its gain, and the correction step never takes
\* the logarithm of a zero peak.
C18_ZeroPeakNoClipping ==
    /\ [](mode = "gain" => ~logOfZero)
    /\ [][\A t \in GainMembers :
            FirstPass(t) =>
               LET a == audioFile[t]
                   b == audioFile'[t] IN
               /\ a.trackPeak.zero =>
                     ~b.trackClips /\ ~b.trackClipPrevention /\ b.trackGain = a.trackGain
               /\ a.albumPeak.zero =>
                     ~b.albumClips /\ ~b.albumClipPrevention /\ b.albumGain = a.albumGain]_vars

C18_Witness ==
    /\ mode = "gain"
    /\ \E t \in GainMembers :
          /\ Processed(t)
          /\ scanStatus[t] = "SUCCESS"
          /\ audioFile[t].trackPeak.zero
          /\ audioFile[t].albumClipPrevention

\* The greatest of the track peaks of the members of folder f
IsGreatestPeak(p, f) ==
    /\ \E t \in Members(f) : audioFile[t].trackPeak = p
    /\ \A t \in Members(f) : ~Greater(audioFile[t].trackPeak, p)

\* C19: after a successful processScanResults the album peak of every member
\* is the greatest track peak of the members, and all members carry the same
\* album gain, album loudness and album loudness range.
C19_AlbumPeakIsMaximum ==
    mode \in {"album", "track"} =>
        \A f \in 1 .. NumFolders :
            aggResult[f] = "ok" =>
                \A t \in Members(f) :
                    /\ IsGreatestPeak(audioFile[t].albumPeak, f)
                    /\ audioFile[t].albumGain = audioFile[<<f, 1>>].albumGain
                    /\ audioFile[t].albumLoudness = audioFile[<<f, 1>>].albumLoudness
                    /\ audioFile[t].albumLoudnessRange = audioFile[<<f, 1>>].albumLoudnessRange

\* C20: for a folder whose members all scanned successfully and whose
\* measurement succeeded, aggregation fails exactly when the folder holds
\* both an Opus member and a member of another codec.
C20_FailsExactlyOnOpusMix ==
    (FolderDone /\ scanAlbum /\ albumContent[1].ok
       /\ \A t \in GainMembers : scanStatus[t] = "SUCCESS") =>
        (aggResult[1] = "failed" <=>
            /\ \E t \in GainMembers : content[t].codec = "OPUS"
            /\ \E t \in GainMembers : content[t].codec # "OPUS")

\* The album result of the clipping step: gain, would-clip flag, corrected
\* flag
AlbumResult(a) == <<a.albumGain, a.albumClips, a.albumClipPrevention>>

\* The record a with other track values
WithTrack(a, gain, peak) == [a EXCEPT !.trackGain = gain, !.trackPeak = peak]

\* The record a with other album values
WithAlbum(a, gain, peak) == [a EXCEPT !.albumGain = gain, !.albumPeak = peak]

TrackGains == { LUFS_TO_RG(l) + pg : l \in Loudnesses, pg \in Pregains }

\* C21: the album gain, album would-clip flag and album corrected flag that
\* processAudioFile leaves are those it leaves for any other track gain and
\* track peak (corrected or not), and the track gain it leaves is the one it
\* leaves for any other album gain and album peak.
C21_ScopesIndependent ==
    [][\A t \in GainMembers :
         FirstPass(t) =>
            LET a == audioFile[t]
                b == audioFile'[t] IN
            /\ \A g \in TrackGains, p \in Peaks :
                 \E et \in Err, ea \in Err :
                    AlbumResult(ClippingStep(WithTrack(a, g, p), et, ea)) = AlbumResult(b)
            /\ \A g \in TrackGains, p \in Peaks :
                 \E et \in Err, ea \in Err :
                    ClippingStep(WithAlbum(a, g, p), et, ea).trackGain = b.trackGain]_vars

\* A member has had its track gain corrected while the album gain, which
\* would not clip, was left as computed
C21_Witness ==
    /\ mode = "gain"
    /\ scanAlbum
    /\ \E t \in GainMembers :
          /\ Processed(t)
          /\ audioFile[t].trackClipPrevention
          /\ ~audioFile[t].albumClips
          /\ ~audioFile[t].albumClipPrevention

\* A worker is inside scanFile on track t: it holds the scan task of t and
\* has not returned from it
InScanFile(w, t) ==
    /\ wtask[w] = Task("scan", t[1], t[2])
    /\ wpc[w] \in {"scan_status", "scan_fields"}

\* The controller is at processScanResults of the folder of t, or at
\* processAudioFile of t
ControllerTouches(t) ==
    \/ cpc = "paf_psr" /\ cf = t[1]
    \/ cpc = "paf_file" /\ cf = t[1] /\ ai = t[2]

\* C22: while a worker executes scanFile on a Track Record, the controller
\* is not at processScanResults or processAudioFile of that record.
C22_RecordTouchedByOneThread ==
    \A t \in LibTracks :
        \A w \in Workers : InScanFile(w, t) => ~ControllerTouches(t)

\* C23: processScanResults assigns the album fields of every member of a
\* successfully aggregated folder one time only, on each processing path.
C23_AlbumFieldsWrittenOnce ==
    mode \in {"album", "track"} =>
        \A f \in 1 .. NumFolders :
            aggResult[f] = "ok" => \A t \in Members(f) : albumWrites[t] = 1

\* C24: at no instant are two threads writing an output record to the CSV
\* results file.
C24_OutputWritesSerialized == Cardinality(csvWriter) <= 1

\* C25: in tag mode 'd', when processLibrary has returned clearRGTags has
\* been invoked once for every discovered file.
C25_DeleteClearsEveryFile ==
    (tagMode = "d" /\ proc = "returned") => \A t \in LibTracks : clears[t] = 1

\* The result of track t is good and tags were requested
TagsDue(t) ==
    /\ tagMode \in {"i", "e"}
    /\ scanStatus[t] = "SUCCESS"
    /\ scanAlbum => aggResult[1] = "ok"

\* C26: writeRGTags is invoked for a track only when the tag mode is 'i' or
\* 'e', its scan succeeded and (album mode) its folder's aggregation
\* succeeded, and when the folder is done it has been invoked once for every
\* such track; in tag mode 's' it is never invoked.
C26_TagsWrittenExactlyForGoodResults ==
    \A t \in GainMembers :
        /\ tagWrites[t] >= 1 => TagsDue(t)
        /\ (FolderDone /\ TagsDue(t)) => tagWrites[t] = 1
        /\ tagMode = "s" => tagWrites[t] = 0

\* Two files were processed in tag mode 'e': the one whose scan succeeded
\* was written, the one whose scan failed was not
C26_Witness ==
    /\ FolderDone
    /\ tagMode = "e"
    /\ lib[1] = 2
    /\ scanStatus[<<1, 1>>] = "SUCCESS" /\ tagWrites[<<1, 1>>] = 1
    /\ scanStatus[<<1, 2>>] = "FAIL" /\ tagWrites[<<1, 2>>] = 0

\* The greater and the smaller of two integers
MaxOf(x, y) == IF x < y THEN y ELSE x
MinOf(x, y) == IF x < y THEN x ELSE y

\* The hardware parallelism and the requested count as integers (both are
\* below 65536 here)
HardwareThreads == mthrds.lo
RequestedThreads == nArg.lo

\* C27: the worker count used by processLibrary is at least 1 and at most
\* the hardware parallelism H (at most 1 where H is 0); it is H - 1 raised
\* to 1 for the argument 0 and min(n, H) raised to 1 for an argument n > 0.
C27_WorkerCountWithinHardware ==
    tpc = "done" =>
        /\ ~U32_less(pl_nthreads, U32(1))
        /\ ~U32_less(U32(MaxOf(HardwareThreads, 1)), pl_nthreads)
        /\ RequestedThreads = 0 =>
              pl_nthreads = U32(MaxOf(1, HardwareThreads - 1))
        /\ RequestedThreads > 0 =>
              pl_nthreads = U32(MaxOf(1, MinOf(RequestedThreads, HardwareThreads)))

\* C28: for a folder of one track, after a successful aggregation and before
\* any correction, the album loudness and range are the track's, the album
\* peak is the track peak and the album gain is the track gain.
C28_SingleTrackAlbumIsTrack ==
    LET t == <<1, 1>>
        a == audioFile[t] IN
    (/\ mode = "gain"
     /\ scanAlbum
     /\ lib[1] = 1
     /\ aggResult[1] = "ok"
     /\ ~Processed(t)) =>
        /\ a.albumLoudness = a.trackLoudness
        /\ a.albumLoudnessRange = a.trackLoudnessRange
        /\ a.albumPeak = a.trackPeak
        /\ a.albumGain = a.trackGain

\* A folder of one Opus track with a peak has been aggregated with a pregain
C28_Witness ==
    /\ mode = "gain"
    /\ scanAlbum
    /\ lib[1] = 1
    /\ aggResult[1] = "ok"
    /\ ~Processed(<<1, 1>>)
    /\ content[<<1, 1>>].codec = "OPUS"
    /\ ~audioFile[<<1, 1>>].trackPeak.zero
    /\ pregain # 0

\* The controller is inside the loops of wait_for_idle
InWaitForIdle == cpc \in {"wfi_read", "wfi_clear", "wfi_reset"}

\* C29: outside wait_for_idle every worker's idle flag is false, and a flag
\* is never true while its worker executes a task.
C29_IdleFlagMeansIdle ==
    /\ ~InWaitForIdle => \A w \in Workers : ~m_idling[w]
    /\ \A w \in Workers : m_idling[w] => ~Executing(w)

\* Worker w takes a step of pop_task_from_other_thread_queue
StealStep(w) ==
    /\ wpc[w] = "pop_other"
    /\ wpc'[w] # wpc[w] \/ wi'[w] # wi[w]

\* C30: a worker looking for work in the deques of the others never visits
\* its own deque, and what it takes is the task at the tail of the deque
\* it visits.
C30_StealsTailOfOtherDeque ==
    [][\A w \in Workers :
         StealStep(w) =>
            LET index == OtherIndex(w, wi[w]) IN
            /\ index # w
            /\ wtask'[w] # NoTask => wtask'[w] = try_steal_res(m_queues[index])]_vars

\* Worker w moves to position pc
Enters(w, pc) == wpc[w] # pc /\ wpc'[w] = pc

\* Worker w takes a task
Takes(w) == wtask[w] = NoTask /\ wtask'[w] # NoTask

GrownBy(q, q2, id) ==
    /\ Len(q2) = Len(q) + 1
    /\ SubSeq(q2, 1, Len(q)) = q
    /\ q2[Len(q2)].kind = "gen"
    /\ q2[Len(q2)].a = id

\* C32: a submit by the controller puts the task at the back of the shared
\* deque and leaves every worker's deque as it was; a submit by a task on
\* worker w puts it at the back of the deque of w and leaves the shared deque
\* and the deques of the other workers as they were.
C32_SubmitTarget ==
    [][\A id \in GenIds :
         (fut[id] = "none" /\ fut'[id] = "pending") =>
            IF nsub' # nsub
            THEN /\ GrownBy(m_pool_work_queue, m_pool_work_queue', id)
                 /\ m_queues' = m_queues
            ELSE /\ m_pool_work_queue' = m_pool_work_queue
                 /\ \E w \in Workers :
                      /\ wpc[w] = "gen_run"
                      /\ GrownBy(m_queues[w], m_queues'[w], id)
                      /\ \A v \in Workers \ {w} : m_queues'[v] = m_queues[v]
      ]_vars

\* A task has been submitted by a worker to its own deque while a task of
\* the controller is in the shared deque
C32_Witness ==
    /\ mode = "pool"
    /\ m_pool_work_queue # <<>>
    /\ \E w \in Workers :
          /\ wpc[w] = "gen_run"
          /\ m_queues[w] # <<>>
          /\ m_queues[w][1].a = ChildOf(wtask[w].a)

\* The library has more folders than the factor times the worker count
ManyFolders == NumFolders > FolderFactor * NumWorkers

\* The folder has more tracks than a folder task takes
LargeFolder(f) == lib[f] > SmallFolderMax

C34_EveryFolderAggregatedOnce ==
    mode = "album" =>
        \A f \in 1 .. NumFolders :
            /\ aggCount[f] <= 1
            /\ proc = "returned" => aggCount[f] = 1

\* C35: the scan status of a track changes only from NONE, to FAIL or to
\* SUCCESS, and only in a step of the worker whose task is scanning that
\* track.
C35_ScanStatusWrittenOnce ==
    [][\A t \in Tracks :
         scanStatus'[t] # scanStatus[t] =>
            /\ scanStatus[t] = "NONE"
            /\ scanStatus'[t] \in {"FAIL", "SUCCESS"}
            /\ \E w \in Workers :
                  /\ wpc[w] = "scan_status"
                  /\ wtask[w].kind \in {"scan", "file", "folder"}
                  /\ WorkerTrack(w) = t
                  /\ wpc'[w] # wpc[w]
      ]_vars

\* The run has returned with a track that failed and a track that succeeded
C35_Witness ==
    /\ mode \in {"album", "track"}
    /\ proc = "returned"
    /\ \E t, u \in LibTracks : scanStatus[t] = "FAIL" /\ scanStatus[u] = "SUCCESS"

\* C36: in album mode the track record of a member is emitted once, after
\* the track records of the members before it and before those of the
\* members after it and before the album record; the album record of a
\* folder is emitted once, after the track records of all its members.
C36_RecordsInOrder ==
    [][mode = "album" =>
         \A f \in 1 .. NumFolders :
            /\ \A k \in 1 .. lib[f] :
                 trackOut'[<<f, k>>] # trackOut[<<f, k>>] =>
                    /\ aggResult[f] = "ok"
                    /\ albumOut[f] = 0
                    /\ \A j \in 1 .. lib[f] :
                         trackOut[<<f, j>>] = (IF j < k THEN 1 ELSE 0)
            /\ albumOut'[f] # albumOut[f] =>
                    /\ aggResult[f] = "ok"
                    /\ albumOut[f] = 0
                    /\ albumOut'[f] = 1
                    /\ \A j \in 1 .. lib[f] : trackOut[<<f, j>>] = 1
      ]_vars

\* The track records of a folder of two members and its album record have
\* been emitted
C36_Witness ==
    /\ mode = "album"
    /\ \E f \in 1 .. NumFolders :
          /\ lib[f] >= 2
          /\ albumOut[f] = 1
          /\ \A t \in Members(f) : trackOut[t] = 1

\* Folder f has emitted a track record and not yet its album record
OpenGroup(f) ==
    /\ aggResult[f] = "ok"
    /\ albumOut[f] = 0
    /\ \E t \in Members(f) : trackOut[t] >= 1

\* C40: in album mode no folder emits a record while another folder is
\* between its first track record and its album record.
C40_FolderRecordsContiguous ==
    mode = "album" =>
        \A f, g \in 1 .. NumFolders : (OpenGroup(f) /\ OpenGroup(g)) => f = g

\* ------------------------------------------------------------------------
\* One AudioFolder whose Track Records receive AudioFile::initFile and
\* AudioFile::scanFile calls in any order, the aggregation of the folder
\* over their accumulators, and the end of the records' lifetime.  Here the
\* AudioFile of a track carries its accumulator as well: eburState is
\* "null" or "live"
\* ------------------------------------------------------------------------
recRest == <<poolVars, workerVars, ctlVars, clientVars, libVars, loopVars,
             trackDone, albumWrites, aggCount, outVars, exitStatus, exitBy,
             inputVars, optVars, stepVars, runVars>>

\* ebur128_state *eburState = NULL (scan.hpp:114) beside the value members
NewRecord == [eburState |-> "null"] @@ NewAudioFile

\* AudioFile::destroyEbuR128State (scan.cpp:93-103): the record after the call
destroyEbuR128State(a) ==
    IF a.eburState # "null" THEN [a EXCEPT !.eburState = "null"] ELSE a

\* Where a call of AudioFile::initFile ends: "open" at the return of
\* scan.cpp:149, "probe" at one of the returns after avFormat was assigned
\* (:151-214), "ok" at the end (:217-221)
InitOutcomes == {"open", "probe", "ok"}

\* AudioFile::initFile (scan.cpp:133-222): releases the accumulator (:135),
\* resets avCodecId and avFormat (:136-137) and probes the file; scanStatus
\* is not assigned on any path
initFile_record(a, c, o) ==
    LET reset == [destroyEbuR128State(a) EXCEPT !.avCodecId = "NONE", !.avFormat = ""] IN
    CASE o = "open" -> reset
      [] o = "probe" -> [reset EXCEPT !.avFormat = c.format]
      [] OTHER -> Opened(reset, c)

Record_initFile(t) ==
    /\ mode = "record"
    /\ proc = "running"
    /\ \E o \in InitOutcomes :
         audioFile' = [audioFile EXCEPT ![t] = initFile_record(@, content[t], o)]
    /\ UNCHANGED <<scanStatus, aggResult, proc, recRest>>

\* Where a call of AudioFile::scanFile ends: "open" at the return of
\* scan.cpp:237, "stream" at one of the returns before the accumulator is
\* touched (:239-313), "init" when ebur128_init returns NULL (:352-368),
\* "decode" at one of the returns after the accumulator was created
\* (:370-465), "ok" at the end (:477-489)
ScanOutcomes == {"open", "stream", "init", "decode", "ok"}

\* AudioFile::scanFile (scan.cpp:224-490): the record after the call
scanFile_record(a, c, pg, o) ==
    CASE o = "open" -> a
      [] o = "stream" -> [a EXCEPT !.avFormat = c.format]
      [] o = "init" -> destroyEbuR128State(Opened(a, c))
      [] o = "decode" -> [Opened(a, c) EXCEPT !.eburState = "live"]
      [] OTHER -> SaveResults([Opened(a, c) EXCEPT !.eburState = "live"], c, pg)

Record_scanFile(t) ==
    /\ mode = "record"
    /\ proc = "running"
    /\ \E o \in ScanOutcomes :
         /\ scanStatus' = [scanStatus EXCEPT ![t] = IF o = "ok" THEN "SUCCESS" ELSE "FAIL"]
         /\ audioFile' = [audioFile EXCEPT ![t] = scanFile_record(@, content[t], pregain, o)]
    /\ UNCHANGED <<aggResult, proc, recRest>>

\* The array AudioFolder::processScanResults hands to
\* ebur128_loudness_global_multiple (scan.cpp:644-650), built when every
\* member is SUCCESS (:640-642)
ebuR128States(f) == [i \in 1 .. lib[f] |-> audioFile[<<f, i>>].eburState]

\* AudioFolder::processScanResults (scan.cpp:638-710) on the folder
Record_processScanResults ==
    /\ mode = "record"
    /\ proc = "running"
    /\ \E measured \in BOOLEAN :
         /\ aggResult' = [aggResult EXCEPT ![1] =
                            IF processScanResults(1, measured) THEN "ok" ELSE "failed"]
         /\ audioFile' = AudioFilesAfter(1, measured)
    /\ UNCHANGED <<scanStatus, proc, recRest>>

\* The owner of the AudioFolder returns: ~AudioFile of every member
\* (scan.cpp:88-91)
Record_destruct ==
    /\ mode = "record"
    /\ proc = "running"
    /\ proc' = "returned"
    /\ audioFile' = [t \in Tracks |-> destroyEbuR128State(audioFile[t])]
    /\ UNCHANGED <<scanStatus, aggResult, recRest>>

InitRecord ==
    /\ InitPoolVars
    /\ it = 1
    /\ si = 1
    /\ tr_count = 0
    /\ audio_folders = <<>>
    /\ held = {}
    /\ af = 1
    /\ cf = 1
    /\ ai = 1
    /\ scanStatus = [t \in Tracks |-> "NONE"]
    /\ trackDone = [t \in Tracks |-> FALSE]
    /\ albumWrites = [t \in Tracks |-> 0]
    /\ audioFile = [t \in Tracks |-> NewRecord]
    /\ aggCount = [f \in Folders |-> 0]
    /\ aggResult = [f \in Folders |-> "none"]
    /\ trackOut = [t \in Tracks |-> 0]
    /\ albumOut = [f \in Folders |-> 0]
    /\ errOut = {}
    /\ proc = "running"
    /\ exitStatus = 0
    /\ exitBy = "none"
    /\ mode = "record"
    /\ lib = <<RecordFolderSize>>
    /\ cpc = "off"
    /\ content = RunContent
    /\ albumContent = RunAlbumContent
    /\ InitOptions(TRUE)
    /\ InitStepVars("off")
    /\ InitRun("s", FALSE)
    /\ InitThreadsSet

NextRecord ==
    \/ \E t \in LibTracks : Record_initFile(t)
    \/ \E t \in LibTracks : Record_scanFile(t)
    \/ Record_processScanResults
    \/ Record_destruct

SpecRecord == InitRecord /\ [][NextRecord]_vars

\* C37: after any sequence of initFile and scanFile calls, a Track Record
\* whose scan status is SUCCESS owns a live accumulator (eburState is not
\* null) during its lifetime, so that the array which the aggregation of a
\* folder of SUCCESS members builds for the multi-combine operation holds no
\* null accumulator.
C37_SuccessOwnsAccumulator ==
    (mode = "record" /\ proc = "running") =>
        /\ \A t \in LibTracks :
             scanStatus[t] = "SUCCESS" => audioFile[t].eburState = "live"
        /\ AllSucceeded(1) =>
             \A i \in DOMAIN ebuR128States(1) : ebuR128States(1)[i] # "null"

\* The places that hold the generic task id: positions of the shared deque,
\* positions of the workers' deques, workers that hold it
SharedCopies(id) ==
    { i \in DOMAIN m_pool_work_queue :
        m_pool_work_queue[i].kind = "gen" /\ m_pool_work_queue[i].a = id }
OwnCopies(id) ==
    { p \in UNION { { <<w, i>> : i \in DOMAIN m_queues[w] } : w \in Workers } :
        m_queues[p[1]][p[2]].kind = "gen" /\ m_queues[p[1]][p[2]].a = id }
Holders(id) == { w \in Workers : wtask[w].kind = "gen" /\ wtask[w].a = id }
Copies(id) ==
    Cardinality(SharedCopies(id)) + Cardinality(OwnCopies(id)) + Cardinality(Holders(id))

\* A task is in one place from its submission until it has run, and in no
\* place before and after
C38_AtMostOnce ==
    \A id \in GenIds :
        /\ Copies(id) <= 1
        /\ fut[id] = "none" => Copies(id) = 0
        /\ Completed(id) => Cardinality(SharedCopies(id)) + Cardinality(OwnCopies(id)) = 0

\* The part of C38 that holds for every interleaving of the pops
C38_AtMostOnceInPool == mode = "pool" => C38_AtMostOnce

\* C38: every task submitted to the pool is executed exactly once: it is
\* never held by two workers or queued twice, it is not queued again once it
\* has run, and when wait_for_finished returns it has run and is in no deque.
C38_ExecutedExactlyOnce ==
    mode = "pool" =>
        /\ C38_AtMostOnce
        /\ cpc = "wff_return" =>
             \A id \in GenIds : Submitted(id) => (Completed(id) /\ Copies(id) = 0)

\* C39: also when tasks running on workers submit further tasks to their own
\* deques, wait_for_idle returns only when no task is queued anywhere and no
\* worker is executing a task.
C39_IdleBarrierChained ==
    (mode = "pool" /\ cpc = "wfi_return" /\ chained) =>
        /\ QueuesEmpty
        /\ \A w \in Workers : ~Executing(w)

====
